---------------------------- MODULE Spec2Model ----------------------------
(***************************************************************************)
(* A model of application-compiler: the live include tree                  *)
(* (NestedLiveFile), the watcher pool (WatcherPool) and the path helpers   *)
(* (shared/operators.js).                                                  *)
(*                                                                         *)
(* Representation of text.  A string is a sequence of tokens, each token a *)
(* TLA+ string ("include(", ")", "\n", "//", a file name, ...).  A path    *)
(* string is the sequence of its "/"-separated segments, i.e. exactly what *)
(* String.split('/') returns: './app/r' is <<".", "app", "r">>, '/x' is    *)
(* <<"", "x">>, 'a/' is <<"a", "">> and '' is <<"">>.                      *)
(***************************************************************************)
EXTENDS Integers, Sequences, FiniteSets, Bags, TLC

(***************************************************************************)
(* Small sequence helpers.                                                 *)
(***************************************************************************)
Front(s) == SubSeq(s, 1, Len(s) - 1)

Last(s) == s[Len(s)]

Range(s) == {s[i] : i \in 1..Len(s)}

\* The element of a one-element set.
Only(S) == CHOOSE x \in S : TRUE

\* F applied to the value of x, with x evaluated once.
Bind(x, F(_)) == Only({F(y) : y \in {x}})

RECURSIVE SumLen(_)
SumLen(s) == IF s = <<>> THEN 0 ELSE Len(Head(s)) + SumLen(Tail(s))

RECURSIVE Concat(_)
Concat(s) == IF s = <<>> THEN "" ELSE Head(s) \o Concat(Tail(s))

RECURSIVE JoinPath(_)
JoinPath(p) ==
    IF Len(p) = 0 THEN ""
    ELSE IF Len(p) = 1 THEN p[1]
    ELSE p[1] \o "/" \o JoinPath(Tail(p))

(***************************************************************************)
(* shared/operators.js                                                     *)
(***************************************************************************)
StartsWithDotSlash(p) == Len(p) >= 2 /\ p[1] = "."

StartsWithSlash(p) == Len(p) >= 2 /\ p[1] = ""

EndsWithSlash(p) == Len(p) >= 2 /\ Last(p) = ""

path_to_chunks(path, ignore_trailing_slash, sys_root_prefix) ==
    IF path = <<".", "">> THEN <<".", "">>
    ELSE LET p1 == IF EndsWithSlash(path) /\ ~ignore_trailing_slash
                   THEN Front(path) ELSE path
             p2 == IF ~StartsWithDotSlash(p1) /\ ~StartsWithSlash(p1)
                   THEN <<".">> \o p1 ELSE p1
         IN  IF Len(p2[1]) = 0 THEN <<sys_root_prefix>> \o Tail(p2) ELSE p2

chunks_to_path(chunks) ==
    IF chunks[1] = "_sys_root" THEN <<"">> \o Tail(chunks) ELSE chunks

\* The loop of absolute_file_path over chunks[i], i < chunks.length - 1.
RECURSIVE Traverse(_, _, _)
Traverse(chunks, i, context_chunks) ==
    IF i > Len(chunks) - 1 THEN context_chunks
    ELSE LET current == chunks[i]
         IN  IF current = ".."
             THEN Bind(IF Len(context_chunks) > 1
                       THEN Front(context_chunks) ELSE context_chunks,
                       LAMBDA c : Traverse(chunks, i + 1, c))
             ELSE IF current # "."
             THEN Bind(Append(context_chunks, current),
                       LAMBDA c : Traverse(chunks, i + 1, c))
             ELSE Traverse(chunks, i + 1, context_chunks)

absolute_file_path(path, context) ==
    Bind(path_to_chunks(path, FALSE, "."), LAMBDA chunks :
    Bind(path_to_chunks(context, FALSE, "_sys_root"), LAMBDA context_chunks :
         chunks_to_path(Append(Traverse(chunks, 1, context_chunks), Last(chunks)))))

(***************************************************************************)
(* NestedLiveFile: the parts of the constructor that are pure.             *)
(***************************************************************************)
FileNameOf(path) == Last(path_to_chunks(path, FALSE, "_sys_root"))

DirectoryOf(path) == chunks_to_path(Front(path_to_chunks(path, FALSE, "_sys_root")))

(***************************************************************************)
(* NestedLiveFile: directive scanning.                                     *)
(*                                                                         *)
(* Tokens that do not end with one of the characters _valid_func_char      *)
(* accepts; every other token of the model is a word made of letters,      *)
(* digits, '_' and '.'.  The backtick character is the token "BACKTICK".   *)
(***************************************************************************)
NonWordTokens ==
    {"\n", "include(", ")", "'", "\"", "BACKTICK", "//", "/*", "*/", " ", "  ", ";", "/",
     "//_ START_FILE | ", "//_ END_FILE | ", "//_ INVALID_FILE | ", " | ",
     " LINES _//", " _//"}

\* Tokens in which the text '//' occurs.
LineOpenerTokens ==
    {"//", "//_ START_FILE | ", "//_ END_FILE | ", "//_ INVALID_FILE | ",
     " LINES _//", " _//"}

FirstIndex(s, tok) ==
    IF \E i \in 1..Len(s) : s[i] = tok
    THEN CHOOSE i \in 1..Len(s) : s[i] = tok /\ \A j \in 1..(i - 1) : s[j] # tok
    ELSE 0

\* String.split(sep): the pieces between the occurrences of sep.
RECURSIVE SplitOn(_, _)
SplitOn(s, sep) ==
    Bind(FirstIndex(s, sep), LAMBDA idx :
         IF idx = 0 THEN <<s>>
         ELSE <<SubSeq(s, 1, idx - 1)>>
              \o Bind(SubSeq(s, idx + 1, Len(s)), LAMBDA rest : SplitOn(rest, sep)))

\* (s.match(/\n/g) || []).length
NewlineCount(s) == Cardinality({i \in 1..Len(s) : s[i] = "\n"})

_valid_func_char(char) == char \notin NonWordTokens

\* The path string a token sequence spells: its "/"-separated segments.
RECURSIVE ConcatEach(_)
ConcatEach(pieces) ==
    IF pieces = <<>> THEN <<>>
    ELSE <<Concat(Head(pieces))>> \o ConcatEach(Tail(pieces))

TokensToPath(tokens) == ConcatEach(SplitOn(tokens, "/"))

_parse_file_path(content) ==
    LET NotQuote(char) == char \notin {"'", "\"", "BACKTICK"}
    IN  Bind(SplitOn(content, ")")[1], LAMBDA first :
        Bind(TokensToPath(SelectSeq(first, NotQuote)), LAMBDA file_path :
        Bind(path_to_chunks(file_path, FALSE, "_sys_root"), LAMBDA chunks :
             chunks_to_path(chunks))))

_from_newline(content, left) ==
    Bind(SplitOn(content, "\n"), LAMBDA pieces :
         IF left THEN pieces[Len(pieces)] ELSE pieces[1])

\* String.length of a path string.
PathStringLength(p) == SumLen(p) + (Len(p) - 1)

\* The body of the loop of _get_included_files when chunk i (1-based) may
\* hold a call: left is chunk i - 1, skip is acc with line_offset advanced.
ScanCall(self, current, left, line_position, skip) ==
    LET last_left_char == Last(left)
        valid_last_char == _valid_func_char(last_left_char)
    IN  Bind(_parse_file_path(current), LAMBDA file_path :
        IF ~(~valid_last_char /\ PathStringLength(file_path) > 0) THEN skip
        ELSE
        Bind(_from_newline(left, TRUE), LAMBDA left_content :
        LET single_commment == \E k \in 1..Len(left_content) :
                                  left_content[k] \in LineOpenerTokens
            multi_left == \E k \in 1..Len(left_content) : left_content[k] = "/*"
            multi_right == ~\E k \in 1..Len(left_content) : left_content[k] = "*/"
            multi_comment == multi_left /\ multi_right
        IN  IF ~(~single_commment /\ ~multi_comment) THEN skip
            ELSE
            Bind(absolute_file_path(file_path, self.directory_path),
                 LAMBDA absolute_path :
                 IF absolute_path \notin Range(self.forbidden)
                 THEN [skip EXCEPT
                         !.paths = @ \cup {absolute_path},
                         !.files = (line_position :>
                                      [path |-> absolute_path,
                                       spacing |-> SumLen(left_content)]) @@ @]
                 ELSE [skip EXCEPT
                         !.errors = Append(@, [path |-> self.path,
                                               target |-> absolute_path,
                                               line |-> line_position])])))

\* A variant of the iteration that advances line_offset only past a chunk
\* that may hold a call.
ScanStepOffsetInside(self, chunks, i, acc) ==
    LET current == chunks[i]
        has_left == i > 1
        left == IF has_left THEN chunks[i - 1] ELSE <<>>
        left_truthy == has_left /\ left # <<>>
        lines_count == NewlineCount(left) + 1
        line_position == acc.line_offset + lines_count
    IN  IF ~(left_truthy /\ FirstIndex(current, ")") > 0) THEN acc
        ELSE Bind([acc EXCEPT !.line_offset = acc.line_offset + lines_count - 1],
                  LAMBDA skip : ScanCall(self, current, left, line_position, skip))

\* One iteration of the loop of _get_included_files for chunk i (1-based);
\* acc is [files, paths, errors, line_offset].
ScanStep(self, chunks, i, acc) ==
    LET current == chunks[i]
        has_left == i > 1
        left == IF has_left THEN chunks[i - 1] ELSE <<>>
        left_truthy == has_left /\ left # <<>>
        lines_count == NewlineCount(left) + 1
        line_position == acc.line_offset + lines_count
        next_offset == IF left_truthy THEN acc.line_offset + lines_count - 1
                       ELSE acc.line_offset
    IN  Bind([acc EXCEPT !.line_offset = next_offset], LAMBDA skip :
             IF ~(left_truthy /\ FirstIndex(current, ")") > 0) THEN skip
             ELSE ScanCall(self, current, left, line_position, skip))

RECURSIVE ScanLoop(_, _, _, _)
ScanLoop(self, chunks, i, acc) ==
    IF i > Len(chunks) THEN acc
    ELSE Bind(ScanStep(self, chunks, i, acc), LAMBDA a :
              ScanLoop(self, chunks, i + 1, a))

\* Returns [files, paths, errors]: files maps a line position to
\* [path, spacing]; paths is the set of accepted resolved paths; errors are
\* the calls of the error handler, in order.
_get_included_files(self) ==
    Bind(SplitOn(self.content, "include("), LAMBDA chunks :
    Bind(ScanLoop(self, chunks, 1,
                  [files |-> <<>>, paths |-> {}, errors |-> <<>>, line_offset |-> 0]),
         LAMBDA acc :
         [files |-> acc.files, paths |-> acc.paths, errors |-> acc.errors]))

\* A variant whose markers count the file's own lines and one marker.
WrapContentMiscounted(file_name, path, content) ==
    LET lines == NewlineCount(content) + 2
        start_comment == <<"//_ START_FILE | ", file_name, " | ", JoinPath(path),
                           " | ", ToString(lines), " LINES _//", "\n">>
        end_comment == <<"\n", "//_ END_FILE | ", file_name, " | ", JoinPath(path),
                         " | ", ToString(lines), " LINES _//">>
    IN  start_comment \o content \o end_comment

\* _reload_content: the content stored after a successful read of `content`.
WrapContent(file_name, path, content) ==
    LET lines == NewlineCount(content) + 3
        start_comment == <<"//_ START_FILE | ", file_name, " | ", JoinPath(path),
                           " | ", ToString(lines), " LINES _//", "\n">>
        end_comment == <<"\n", "//_ END_FILE | ", file_name, " | ", JoinPath(path),
                         " | ", ToString(lines), " LINES _//">>
    IN  start_comment \o content \o end_comment

\* _reload_content: the content stored after a failed read.
InvalidContent(file_name, path) ==
    <<"//_ INVALID_FILE | ", file_name, " | ", JoinPath(path), " _//", "\n">>

(***************************************************************************)
(* The state.                                                              *)
(***************************************************************************)
VARIABLES
    fs,           \* the file system: canonical file |-> content (token sequence)
    menu,         \* the contents an edit may give each file (fixed by Init)
    nodes,        \* every NestedLiveFile instance ever constructed, by index
    watchers,     \* WatcherPool.#watchers: path |-> [last_update, handlers]
    pool_id,      \* WatcherPool.#id
    statistics,   \* WatcherPool.#statistics
    open_handles, \* the FSWatcher handles that are open: a bag of paths
    tasks,        \* callbacks the event loop still owes: a bag of tasks
    now,          \* Date.now()
    crashed,      \* an exception escaped a callback
    edits,        \* how many writes the environment has made            
    fwd,          \* history: path |-> time of the last forwarded event
    write_to,     \* Compiler.#write_to
    last          \* history: what the last step did

vars == <<fs, menu, nodes, watchers, pool_id, statistics, open_handles, tasks,
          now, crashed, edits, fwd, write_to, last>>

\* Program constants.
WatcherDelay == 250

CallDelay == 150

WriteDelay == 250

\* Bounds of the model.
MaxNodes == 5

MaxEdits == 1

MaxTicks == 3

\* The clock is observed every TickStep milliseconds.
TickStep == CallDelay

MaxTime == MaxTicks * TickStep

Undefined == -1

Task(k, node, path, due) == [k |-> k, node |-> node, path |-> path, due |-> due]

Event(ev, node, what, label) == [ev |-> ev, node |-> node, what |-> what, label |-> label]

\* The mutable state an operation works on, threaded through its calls.
World ==
    [nodes |-> nodes, watchers |-> watchers, pool_id |-> pool_id,
     statistics |-> statistics, open_handles |-> open_handles, tasks |-> tasks,
     now |-> now, crashed |-> crashed, fwd |-> fwd, write_to |-> write_to,
     trace |-> <<>>, ret |-> Undefined, overflow |-> FALSE]

Emit(w, e) == [w EXCEPT !.trace = Append(@, e)]

AddTask(w, t) == [w EXCEPT !.tasks = @ (+) SetToBag({t})]

Throw(w, n, what) == Emit([w EXCEPT !.crashed = TRUE], Event("throw", n, what, <<>>))

(***************************************************************************)
(* The file system as the operating system resolves a path string:         *)
(* relative to the working directory, "." dropped, ".." one level up.      *)
(***************************************************************************)
RECURSIVE OsResolveFrom(_, _)
OsResolveFrom(p, acc) ==
    IF p = <<>> THEN acc
    ELSE IF Head(p) = "." THEN OsResolveFrom(Tail(p), acc)
    ELSE IF Head(p) = ".."
         THEN OsResolveFrom(Tail(p), IF Len(acc) > 0 THEN Front(acc) ELSE acc)
    ELSE OsResolveFrom(Tail(p), Append(acc, Head(p)))

OsResolve(path) == OsResolveFrom(path, <<>>)

FileExists(path) == OsResolve(path) \in DOMAIN fs

(***************************************************************************)
(* WatcherPool                                                             *)
(***************************************************************************)
\* _id: the wrap to 0 at Number.MAX_SAFE_INTEGER - 1000 is out of reach.
_id(w) == [w EXCEPT !.pool_id = @ + 1, !.ret = w.pool_id + 1]

\* A variant that opens a handle on every call.
CreateWatcherAlways(w, path) ==
    IF ~FileExists(path) THEN Throw(w, 0, "ENOENT")
    ELSE
    Emit([w EXCEPT
            !.watchers = (path :> [last_update |-> w.now - WatcherDelay,
                                   handlers |-> IF path \in DOMAIN @
                                                THEN @[path].handlers ELSE <<>>,
                                   forwarded |-> <<>>]) @@ @,
            !.open_handles = @ (+) SetToBag({path}),
            !.statistics.watchers = @ + 1],
         Event("open", 0, "handle", path))

\* watch, "Create new watcher instance if none exists".  FileSystem.watch
\* throws when the path names no file, before the entry is stored.
CreateWatcher(w, path) ==
    IF path \notin DOMAIN w.watchers /\ ~FileExists(path)
    THEN Throw(w, 0, "ENOENT")
    ELSE IF path \notin DOMAIN w.watchers
    THEN Emit([w EXCEPT
                 !.watchers = (path :> [last_update |-> w.now - WatcherDelay,
                                        handlers |-> <<>>,
                                        forwarded |-> <<>>]) @@ @,
                 !.open_handles = @ (+) SetToBag({path}),
                 !.statistics.watchers = @ + 1],
              Event("open", 0, "handle", path))
    ELSE w

\* Returns the handler's id in ret.
watch(w, path, handler) ==
    Bind(CreateWatcher(w, path), LAMBDA w1 :
    IF w1.crashed THEN w1 ELSE
    Bind(_id(w1), LAMBDA w2 :
         [w2 EXCEPT !.statistics.handlers = @ + 1,
                    !.watchers[path].handlers =
                        Append(@, [id |-> w2.ret, call |-> handler])]))

\* A variant that closes the handle whatever handlers remain.
CleanupAlways(w, path) ==
    Emit([w EXCEPT
            !.open_handles = @ (-) SetToBag({path}),
            !.statistics.watchers = @ - 1,
            !.watchers = [q \in (DOMAIN @) \ {path} |-> @[q]]],
         Event("close", 0, "handle", path))

\* unwatch, "Cleanup watcher instance if it has no more handlers bound to it".
Cleanup(w, path) ==
    IF Len(w.watchers[path].handlers) = 0
    THEN Emit([w EXCEPT
                 !.open_handles = @ (-) SetToBag({path}),
                 !.statistics.watchers = @ - 1,
                 !.watchers = [q \in (DOMAIN @) \ {path} |-> @[q]]],
              Event("close", 0, "handle", path))
    ELSE w

unwatch(w, path, handler_id) ==
    IF path \in DOMAIN w.watchers
    THEN LET Other(h) == h.id # handler_id
         IN  Bind([w EXCEPT !.statistics.handlers = @ - 1,
                            !.watchers[path].handlers = SelectSeq(@, Other)],
                  LAMBDA w1 : Cleanup(w1, path))
    ELSE w

\* A variant that never touches last_update.
_delay_check_untouched(w, path, touch) ==
    IF path \in DOMAIN w.watchers
    THEN [w EXCEPT !.ret = w.now - w.watchers[path].last_update > WatcherDelay]
    ELSE [w EXCEPT !.ret = FALSE]

\* Returns (in ret) whether the check passed.
_delay_check(w, path, touch) ==
    IF path \in DOMAIN w.watchers
    THEN LET watcher == w.watchers[path]
             last_update == watcher.last_update
             watcher_delay == WatcherDelay
             result == w.now - last_update > watcher_delay
         IN  IF result /\ touch
             THEN [w EXCEPT !.watchers[path].last_update = w.now, !.ret = TRUE]
             ELSE [w EXCEPT !.ret = result]
    ELSE [w EXCEPT !.ret = FALSE]

_handle_update(w, path) ==
    IF path \in DOMAIN w.watchers
    THEN Bind(_delay_check(w, path, TRUE), LAMBDA w1 :
              IF w1.ret = TRUE
              THEN Emit(AddTask([w1 EXCEPT !.fwd = (path :> w.now) @@ @,
                                           !.watchers[path].forwarded = Append(@, w.now)],
                                Task("timer", 0, path, w.now + CallDelay)),
                        Event("forward", 0, "event", path))
              ELSE w1)
    ELSE w

\* NestedLiveFile._reload_content: starts a read whose callback runs later.
_reload_content(w, n) == AddTask(w, Task("read", n, <<>>, 0))

\* A handler is [kind, node]: "reload" is the callback _init_watcher binds,
\* (e, f) => reference._reload_content(); "ext" is a caller's own callback.
Invoke(w, h) ==
    Bind(Emit(w, Event("call", h.call.node, h.call.kind, <<>>)), LAMBDA w1 :
         IF h.call.kind = "reload" THEN _reload_content(w1, h.call.node) ELSE w1)

RECURSIVE InvokeAll(_, _)
InvokeAll(w, handlers) ==
    IF handlers = <<>> THEN w
    ELSE Bind(Invoke(w, Head(handlers)), LAMBDA w1 : InvokeAll(w1, Tail(handlers)))

\* The callback _handle_update hands to setTimeout.
TimerCallback(w, path) ==
    IF path \notin DOMAIN w.watchers
    THEN Throw(w, 0, "TypeError")
    ELSE InvokeAll(w, w.watchers[path].handlers)

(***************************************************************************)
(* NestedLiveFile                                                          *)
(*                                                                         *)
(* The handlers of a node are bound right after its construction and never *)
(* change: a child's pass to its parent's (field parent), the root's to    *)
(* the Compiler (parent 0).  file_store is kept in insertion order, the    *)
(* order Object.keys gives.  destroyed, inits, changes, recals and         *)
(* in_order are history: the events the node has emitted so far.           *)
(***************************************************************************)
RECURSIVE destroy(_, _)
RECURSIVE DestroyStore(_, _, _)
RECURSIVE FilterPointers(_, _, _, _, _)
RECURSIVE AddPointers(_, _, _, _, _)
RECURSIVE PassRecalibrate(_, _)
RECURSIVE SortedLines(_)
RECURSIVE SortByLine(_)

\* The index of path's entry in a file store, 0 if it has none.
StoreIndex(file_store, path) ==
    IF \E i \in 1..Len(file_store) : file_store[i].path = path
    THEN CHOOSE i \in 1..Len(file_store) : file_store[i].path = path
    ELSE 0

StoreDelete(file_store, path) ==
    LET Keep(e) == e.path # path IN SelectSeq(file_store, Keep)

\* this.#handlers.logger(message): reaches the Compiler's logger.
_log(w, n, what) ==
    LET self == w.nodes[n]
    IN  [w EXCEPT
           !.trace = Append(@, Event("log", n, what, self.hierarchy)),
           !.nodes[n].inits = IF what = "INITIALIZED" THEN @ + 1 ELSE @,
           !.nodes[n].changes = IF what = "DETECTED_CHANGES" THEN @ + 1 ELSE @,
           !.nodes[n].in_order = IF what = "DETECTED_CHANGES" /\ self.inits = 0
                                 THEN FALSE ELSE @,
           !.nodes[n].destroyed = IF what = "DESTROYED" THEN @ + 1 ELSE @]

\* this.#handlers.error(path, error): reaches the Compiler's error handler.
HandleError(w, n, what, path) == Emit(w, Event("error", n, what, path))

\* The constructor; hierarchy <<>> is null.  Returns the new node in ret.
NestedLiveFile(w, path, forbidden, hierarchy, parent) ==
    LET n == Len(w.nodes) + 1
        file_name == FileNameOf(path)
        self == [path |-> path,
                 directory_path |-> DirectoryOf(path),
                 file_name |-> file_name,
                 hierarchy |-> IF hierarchy = <<>> THEN <<file_name>>
                               ELSE Append(hierarchy, file_name),
                 forbidden |-> Append(forbidden, path),
                 content |-> <<>>,
                 watcher_id |-> Undefined,
                 initialized |-> FALSE,
                 file_store |-> <<>>,
                 nested_pointers |-> <<>>,
                 parent |-> parent,
                 destroyed |-> 0, inits |-> 0, changes |-> 0, recals |-> 0,
                 in_order |-> TRUE]
    IN  \* _init_watcher (FileSystem.access) and _reload_content
        \* (FileSystem.readFile) start; their callbacks run later.
        [w EXCEPT !.nodes = Append(@, self),
                  !.overflow = @ \/ n > MaxNodes,
                  !.tasks = @ (+) SetToBag({Task("access", n, <<>>, 0)})
                              (+) SetToBag({Task("read", n, <<>>, 0)}),
                  !.ret = n]

destroy(w, n) ==
    Bind(_log(w, n, "DESTROYED"), LAMBDA w1 :
    Bind(unwatch(w1, w1.nodes[n].path, w1.nodes[n].watcher_id), LAMBDA w2 :
    Bind([w2 EXCEPT !.nodes[n].nested_pointers = <<>>], LAMBDA w3 :
         DestroyStore(w3, n, w3.nodes[n].file_store))))

DestroyStore(w, n, entries) ==
    IF entries = <<>> THEN w
    ELSE Bind(destroy(w, Head(entries).node), LAMBDA w1 :
         Bind([w1 EXCEPT !.nodes[n].file_store = StoreDelete(@, Head(entries).path)],
              LAMBDA w2 : DestroyStore(w2, n, Tail(entries))))

\* A variant of the destroy condition that ignores the included paths.
NoLongerNeededByCount(nested_file, path, included_paths) ==
    nested_file.pointers < 1

\* The destroy condition of _recalibrate's filter.
NoLongerNeeded(nested_file, path, included_paths) ==
    nested_file.pointers < 1 /\ path \notin included_paths

\* _recalibrate's filter, a pointer whose verdict is false: "Decrease
\* nested_file pointers" and "Destroy nested file if it has no dependent
\* pointers and the path is no longer included".
DropPointer(w, n, path, included_paths) ==
    LET idx == StoreIndex(w.nodes[n].file_store, path)
    IN  IF idx = 0 THEN Throw(w, n, "TypeError")
        ELSE Bind([w EXCEPT !.nodes[n].file_store[idx].pointers = @ - 1], LAMBDA w1 :
             IF NoLongerNeeded(w1.nodes[n].file_store[idx], path, included_paths)
             THEN Bind(destroy(w1, w1.nodes[n].file_store[idx].node), LAMBDA w2 :
                       [w2 EXCEPT !.nodes[n].file_store = StoreDelete(@, path)])
             ELSE w1)

\* _recalibrate, "Remove old file pointers and references": the filter over
\* the previous pointers; kept are the pointers whose verdict is true.
FilterPointers(w, n, pointers, nested_data, kept) ==
    IF pointers = <<>> \/ w.crashed THEN [w |-> w, kept |-> kept]
    ELSE
    LET pointer == Head(pointers)
        path == pointer.path
        line_position == pointer.line
        included_files == nested_data.files
        verdict == /\ line_position \in DOMAIN included_files
                   /\ included_files[line_position].path = path
    IN  IF verdict
        THEN Bind(Append(kept, pointer), LAMBDA k :
                  FilterPointers(w, n, Tail(pointers), nested_data, k))
        ELSE Bind(DropPointer(w, n, path, nested_data.paths), LAMBDA w1 :
                  FilterPointers(w1, n, Tail(pointers), nested_data, kept))

\* Object.keys of an object with integer keys: ascending.
SortedLines(S) ==
    IF S = {} THEN <<>>
    ELSE LET m == CHOOSE x \in S : \A y \in S : x <= y
         IN  <<m>> \o SortedLines(S \ {m})

\* A variant that makes a child for every new pointer.
ResolveChildAlways(w, n, path) ==
    Bind(NestedLiveFile(w, path, w.nodes[n].forbidden, w.nodes[n].hierarchy, n),
         LAMBDA w1 :
         [w1 EXCEPT !.nodes[n].file_store =
                        Append(@, [path |-> path, node |-> w1.ret, pointers |-> 0])])

\* A variant that shares one instance per path among all nodes.
ResolveChildShared(w, n, path) ==
    LET others == {m \in 1..Len(w.nodes) : w.nodes[m].path = path /\ m # n}
    IN  IF StoreIndex(w.nodes[n].file_store, path) = 0 /\ others # {}
        THEN [w EXCEPT !.nodes[n].file_store =
                           Append(@, [path |-> path,
                                      node |-> CHOOSE m \in others : TRUE,
                                      pointers |-> 0])]
        ELSE ResolveChildAlways(w, n, path)

\* The child for a new pointer: the entry of the file store, made if missing.
ResolveChild(w, n, path) ==
    IF StoreIndex(w.nodes[n].file_store, path) = 0
    THEN Bind(NestedLiveFile(w, path, w.nodes[n].forbidden, w.nodes[n].hierarchy, n),
              LAMBDA w1 :
              [w1 EXCEPT !.nodes[n].file_store =
                             Append(@, [path |-> path, node |-> w1.ret, pointers |-> 0])])
    ELSE w

\* _recalibrate, "Create new file pointers and references", one new pointer.
AddPointer(w, n, line_position, new_pointer) ==
    Bind(ResolveChild(w, n, new_pointer.path), LAMBDA w1 :
         LET idx == StoreIndex(w1.nodes[n].file_store, new_pointer.path)
         IN  [w1 EXCEPT
                !.nodes[n].file_store[idx].pointers = @ + 1,
                !.nodes[n].nested_pointers =
                    Append(@, [line |-> line_position, path |-> new_pointer.path,
                               spacing |-> new_pointer.spacing])])

AddPointers(w, n, lines, included_files, current_pointers) ==
    IF lines = <<>> THEN w
    ELSE
    LET line_position == Head(lines)
        pointer_check == line_position \notin current_pointers
    IN  IF ~pointer_check
        THEN AddPointers(w, n, Tail(lines), included_files, current_pointers)
        ELSE Bind(AddPointer(w, n, line_position, included_files[line_position]),
                  LAMBDA w1 :
                  AddPointers(w1, n, Tail(lines), included_files, current_pointers))

\* A variant that leaves the pointers in the order of their insertion.
SortByLineUnsorted(pointers) == pointers

\* Array.sort((a, b) => a.line - b.line), which is stable.
SortByLine(pointers) ==
    IF pointers = <<>> THEN <<>>
    ELSE LET i == CHOOSE i \in 1..Len(pointers) :
                     /\ \A j \in 1..Len(pointers) : pointers[i].line <= pointers[j].line
                     /\ \A j \in 1..(i - 1) : pointers[j].line # pointers[i].line
             Rest == [j \in 1..(Len(pointers) - 1) |->
                         IF j < i THEN pointers[j] ELSE pointers[j + 1]]
         IN  <<pointers[i]>> \o SortByLine(Rest)

(***************************************************************************)
(* The chunk tree and its text.                                            *)
(*                                                                         *)
(* An element of a chunk's content is a line of text, a nested chunk, or   *)
(* the hole an assignment past the end of an array leaves.                 *)
(***************************************************************************)
TextLine(str) == [kind |-> "line", str |-> str]

Hole == [kind |-> "hole"]

TextLines(pieces) == [i \in 1..Len(pieces) |-> TextLine(pieces[i])]

\* lines[insert_line] = value (insert_line counts from 0): an array grows
\* with holes when the index is past its end.
SetLine(lines, insert_line, value) ==
    [i \in 1..(IF insert_line + 1 > Len(lines) THEN insert_line + 1 ELSE Len(lines)) |->
        IF i = insert_line + 1 THEN value
        ELSE IF i <= Len(lines) THEN lines[i] ELSE Hole]

RECURSIVE chunks(_, _)
RECURSIVE ChunkPointers(_, _, _, _)
\* The getter chunks of node n in the nodes ns; kind "TypeError" when a
\* pointer's path has no entry in the file store.
chunks(ns, n) ==
    Bind(TextLines(SplitOn(ns[n].content, "\n")), LAMBDA lines :
    Bind(ChunkPointers(ns, n, ns[n].nested_pointers, lines), LAMBDA filled :
         IF filled.throws THEN [kind |-> "TypeError"]
         ELSE [kind |-> "chunk", path |-> ns[n].path, line |-> 1, spacing |-> 0,
               content |-> filled.lines]))

\* The forEach over nested_pointers of the getter chunks.
ChunkPointers(ns, n, pointers, lines) ==
    IF pointers = <<>> THEN [throws |-> FALSE, lines |-> lines]
    ELSE
    Bind(Head(pointers), LAMBDA pointer :
    Bind(StoreIndex(ns[n].file_store, pointer.path), LAMBDA idx :
         IF idx = 0 THEN [throws |-> TRUE, lines |-> lines]
         ELSE
         Bind(chunks(ns, ns[n].file_store[idx].node), LAMBDA nested :
              IF nested.kind = "TypeError" THEN [throws |-> TRUE, lines |-> lines]
              ELSE
              Bind(SetLine(lines, pointer.line - 1,
                           [nested EXCEPT !.line = pointer.line,
                                          !.spacing = pointer.spacing]),
                   LAMBDA next_lines :
                   ChunkPointers(ns, n, Tail(pointers), next_lines)))))

\* ''.padStart(length, char)
repeat_character(char, length) == [i \in 1..length |-> char]

\* Array.join('\n') over strings; a hole joins as the empty string.
RECURSIVE JoinLines(_)
JoinLines(strings) ==
    IF strings = <<>> THEN <<>>
    ELSE IF Len(strings) = 1 THEN strings[1]
    ELSE strings[1] \o <<"\n">> \o JoinLines(Tail(strings))

RECURSIVE _stringify_chunks(_, _)
\* A variant that hands a nested chunk its own indentation only.
StringifyLineOwnSpacing(current, spacing) ==
    IF current.kind = "chunk"
    THEN _stringify_chunks(current, current.spacing)
    ELSE IF spacing > 0
    THEN repeat_character(" ", spacing)
         \o (IF current.kind = "hole" THEN <<"undefined">> ELSE current.str)
    ELSE IF current.kind = "hole" THEN <<>> ELSE current.str

\* One element of the loop of _stringify_chunks: the string contents[i]
\* holds after the iteration.
StringifyLine(current, spacing) ==
    IF current.kind = "chunk"
    THEN _stringify_chunks(current, spacing + current.spacing)
    ELSE IF spacing > 0
    THEN repeat_character(" ", spacing)
         \o (IF current.kind = "hole" THEN <<"undefined">> ELSE current.str)
    ELSE IF current.kind = "hole" THEN <<>> ELSE current.str

\* Compiler._stringify_chunks: the assembled text, a token sequence.
_stringify_chunks(chunk, spacing) ==
    JoinLines([i \in 1..Len(chunk.content) |-> StringifyLine(chunk.content[i], spacing)])

\* The getter compiled of the Compiler over the nodes ns (root is node 1);
\* <<"TypeError">> stands for the exception the getter chunks raises.
compiled(ns) ==
    Bind(chunks(ns, 1), LAMBDA chunk :
         IF chunk.kind = "TypeError" THEN <<"TypeError">>
         ELSE _stringify_chunks(chunk, 0))

\* The line _perform_write puts before the assembled text when
\* relative_errors and runtime_relative_errors are set, as by default.
RelativeLoggerCode ==
    <<"require('application-compiler').log_relative_errors();", "\n">>

\* Compiler._perform_write up to the start of the write of the file; the
\* task "written" is the completion of _write_file and carries, as its
\* path, the content that is written.
_perform_write(w) ==
    LET difference == w.now - w.write_to.last_write
    IN  IF difference < WriteDelay
        THEN IF ~w.write_to.pending
             THEN AddTask([w EXCEPT !.write_to.pending = TRUE],
                          Task("write", 0, <<>>, w.now + (WriteDelay - difference)))
             ELSE w
        ELSE Bind([w EXCEPT !.write_to.pending = FALSE,
                            !.write_to.last_write = w.now], LAMBDA w1 :
             IF ~w.write_to.initial_write
             THEN [w1 EXCEPT !.write_to.initial_write = TRUE]
             ELSE Bind(RelativeLoggerCode \o compiled(w1.nodes), LAMBDA compiled_content :
                  AddTask(Emit(w1, Event("write", 0, compiled_content, w1.write_to.path)),
                          Task("written", 0, compiled_content, 0))))

\* Compiler._on_recalibration
_on_recalibration(w) ==
    Bind(IF w.write_to.path # <<>> THEN _perform_write(w) ELSE w, LAMBDA w1 :
         Emit(w1, Event("sink", 0, "recalibrate", <<>>)))

\* A variant in which every ancestor the notification passes logs a change.
RECURSIVE PassRecalibrateLogging(_, _)
PassRecalibrateLogging(w, n) ==
    LET parent == w.nodes[n].parent
    IN  IF parent = 0 THEN _on_recalibration(w)
        ELSE Bind(_log(w, parent, "DETECTED_CHANGES"), LAMBDA w1 :
                  PassRecalibrateLogging(w1, parent))

\* A variant in which every ancestor the notification passes calls the
\* Compiler's sink as well.
RECURSIVE PassRecalibrateEveryLevel(_, _)
PassRecalibrateEveryLevel(w, n) ==
    LET parent == w.nodes[n].parent
    IN  IF parent = 0 THEN _on_recalibration(w)
        ELSE Bind(_on_recalibration(Emit(w, Event("notify", parent, "recalibrate",
                                                  w.nodes[parent].hierarchy))),
                  LAMBDA w1 : PassRecalibrateEveryLevel(w1, parent))

\* this.#handlers.recalibrate() of node n: the passthrough handler of each
\* ancestor in turn, then the Compiler's.
PassRecalibrate(w, n) ==
    LET parent == w.nodes[n].parent
    IN  IF parent = 0 THEN _on_recalibration(w)
        ELSE Bind(Emit(w, Event("notify", parent, "recalibrate",
                                w.nodes[parent].hierarchy)),
                  LAMBDA w1 : PassRecalibrate(w1, parent))

\* A variant that never records the first event.
LogLifecycleForgetful(w, n) ==
    IF ~w.nodes[n].initialized
    THEN _log(w, n, "INITIALIZED")
    ELSE _log(w, n, "DETECTED_CHANGES")

\* _recalibrate, the lifecycle event.
LogLifecycle(w, n) ==
    IF ~w.nodes[n].initialized
    THEN Bind([w EXCEPT !.nodes[n].initialized = TRUE], LAMBDA w1 :
              _log(w1, n, "INITIALIZED"))
    ELSE _log(w, n, "DETECTED_CHANGES")

\* A variant that notifies before it logs the lifecycle event.
FinishRecalibrateNotifyFirst(w, n, sort_pointers) ==
    Bind(IF sort_pointers
         THEN [w EXCEPT !.nodes[n].nested_pointers = SortByLine(@)] ELSE w, LAMBDA w1 :
    Bind(Emit(w1, Event("pointers", n, "updated", w1.nodes[n].hierarchy)), LAMBDA w2 :
    Bind(PassRecalibrate(w2, n), LAMBDA w3 :
    Bind(LogLifecycle(w3, n), LAMBDA w4 :
         [w4 EXCEPT !.nodes[n].recals = @ + 1]))))

\* _recalibrate, from "Sort pointers" on.
FinishRecalibrate(w, n, sort_pointers) ==
    Bind(IF sort_pointers
         THEN [w EXCEPT !.nodes[n].nested_pointers = SortByLine(@)] ELSE w, LAMBDA w1 :
    Bind(Emit(w1, Event("pointers", n, "updated", w1.nodes[n].hierarchy)), LAMBDA w2 :
    Bind(LogLifecycle(w2, n), LAMBDA w3 :
    Bind([w3 EXCEPT !.nodes[n].recals = @ + 1], LAMBDA w4 :
         PassRecalibrate(w4, n)))))

RECURSIVE ReportErrors(_, _, _)
ReportErrors(w, n, errors) ==
    IF errors = <<>> THEN w
    ELSE Bind(HandleError(w, n, "cycle", Head(errors).target), LAMBDA w1 :
              ReportErrors(w1, n, Tail(errors)))

\* _recalibrate once the scan has returned nested_data.
Reconcile(w, n, nested_data) ==
    Bind(ReportErrors(w, n, nested_data.errors), LAMBDA w0 :
    Bind(FilterPointers(w0, n, w0.nodes[n].nested_pointers, nested_data, <<>>),
         LAMBDA filtered :
         IF filtered.w.crashed THEN filtered.w
         ELSE
         Bind([filtered.w EXCEPT !.nodes[n].nested_pointers = filtered.kept], LAMBDA w1 :
         Bind({filtered.kept[i].line : i \in 1..Len(filtered.kept)},
              LAMBDA current_pointers :
         Bind(SortedLines(DOMAIN nested_data.files), LAMBDA lines :
         Bind(AddPointers(w1, n, lines, nested_data.files, current_pointers), LAMBDA w2 :
              FinishRecalibrate(w2, n,
                  \E i \in 1..Len(lines) : lines[i] \notin current_pointers)))))))

_recalibrate(w, n) ==
    Bind(_get_included_files(w.nodes[n]), LAMBDA nested_data :
         Reconcile(w, n, nested_data))

(***************************************************************************)
(* Callbacks of the event loop.                                            *)
(***************************************************************************)
\* _init_watcher: the callback of FileSystem.access.
AccessCallback(w, n) ==
    LET self == w.nodes[n]
    IN  IF ~FileExists(self.path)
        THEN HandleError(w, n, "access", self.path)
        ELSE Bind(watch(w, self.path, [kind |-> "reload", node |-> n]), LAMBDA w1 :
                  [w1 EXCEPT !.nodes[n].watcher_id = w1.ret])

\* _reload_content: the callback of FileSystem.readFile.
ReadCallback(w, n) ==
    LET self == w.nodes[n]
    IN  IF ~FileExists(self.path)
        THEN Bind([w EXCEPT !.nodes[n].content =
                                InvalidContent(self.file_name, self.path)],
                  LAMBDA w1 : _log(w1, n, "READ_ERROR"))
        ELSE Bind([w EXCEPT !.nodes[n].content =
                                WrapContent(self.file_name, self.path,
                                            fs[OsResolve(self.path)])],
                  LAMBDA w1 : _recalibrate(w1, n))

\* The raw events of a change of file f: one on every open handle whose
\* path names f, each handed to _handle_update.
RECURSIVE RawEvents(_, _, _)
RawEvents(w, f, paths) ==
    IF paths = {} THEN w
    ELSE LET p == CHOOSE q \in paths : TRUE
         IN  Bind(IF OsResolve(p) = f THEN _handle_update(w, p) ELSE w, LAMBDA w1 :
                  RawEvents(w1, f, paths \ {p}))

\* new Compiler({ file_path }): the pool and the root file.
Compiler(w, file_path) == NestedLiveFile(w, file_path, <<file_path>>, <<>>, 0)

(***************************************************************************)
(* Actions.                                                                *)
(***************************************************************************)
Step(op, node, path, id, w) ==
    [op |-> op, node |-> node, path |-> path, id |-> id, trace |-> w.trace,
     before |-> nodes]

Commit(w, op, node, path, id) ==
    /\ ~w.overflow
    /\ nodes' = w.nodes
    /\ watchers' = w.watchers
    /\ pool_id' = w.pool_id
    /\ statistics' = w.statistics
    /\ open_handles' = w.open_handles
    /\ tasks' = w.tasks
    /\ crashed' = w.crashed
    /\ fwd' = w.fwd
    /\ write_to' = w.write_to
    /\ last' = Step(op, node, path, id, w)

Take(t) == [World EXCEPT !.tasks = @ (-) SetToBag({t})]

AccessDone ==
    \E t \in BagToSet(tasks) :
        /\ ~crashed
        /\ t.k = "access"
        /\ \E w0 \in {Take(t)} : \E w \in {AccessCallback(w0, t.node)} :
               Commit(w, "access", t.node, nodes[t.node].path, 0)
        /\ UNCHANGED <<fs, menu, now, edits>>

ReadDone ==
    \E t \in BagToSet(tasks) :
        /\ ~crashed
        /\ t.k = "read"
        /\ \E w0 \in {Take(t)} : \E w \in {ReadCallback(w0, t.node)} :
               Commit(w, "read", t.node, nodes[t.node].path, 0)
        /\ UNCHANGED <<fs, menu, now, edits>>

TimerFire ==
    \E t \in BagToSet(tasks) :
        /\ ~crashed
        /\ t.k = "timer"
        /\ t.due <= now
        /\ \E w0 \in {Take(t)} : \E w \in {TimerCallback(w0, t.path)} :
               Commit(w, "timer", 0, t.path, 0)
        /\ UNCHANGED <<fs, menu, now, edits>>

\* The environment writes content c to file f, at most max times in all.
Write(max) ==
    \E f \in DOMAIN fs : \E c \in menu[f] :
        /\ ~crashed
        /\ edits < max
        /\ fs' = [fs EXCEPT ![f] = c]
        /\ edits' = edits + 1
        /\ \E w0 \in {World} : \E w \in {RawEvents(w0, f, BagToSet(open_handles))} :
               Commit(w, "edit", 0, f, 0)
        /\ UNCHANGED <<menu, now>>

Edit == Write(MaxEdits)

\* A second write may follow the first within the watcher's delay.
EditAgain == Write(MaxEdits + 1)

\* The clock moves on once the event loop has run every callback that is
\* ready: file operations complete, and due timers fire, within one TickStep.
Runnable(t) ==
    \/ t.k \in {"access", "read", "written", "syntax", "stub"}
    \/ (t.k \in {"timer", "write"} /\ t.due <= now)

Tick ==
    /\ ~crashed
    /\ now < MaxTime
    /\ ~\E t \in BagToSet(tasks) : Runnable(t)
    /\ now' = now + TickStep
    /\ last' = [op |-> "tick", node |-> 0, path |-> <<>>, id |-> 0, trace |-> <<>>,
                before |-> nodes]
    /\ UNCHANGED <<fs, menu, nodes, watchers, pool_id, statistics, open_handles,
                   tasks, crashed, edits, fwd, write_to>>

Next == AccessDone \/ ReadDone \/ TimerFire \/ Edit \/ Tick

(***************************************************************************)
(* The state after new Compiler({ file_path }) over a file system.         *)
(***************************************************************************)
\* #write_to of a new Compiler: path <<>> is null; last_write is 0 on a
\* clock that reads the time since 1970, here a time further back than
\* write_delay.
NoWriteTo ==
    [path |-> <<>>, last_write |-> 0 - WriteDelay, pending |-> FALSE,
     initial_write |-> FALSE]

EmptyWorld ==
    [nodes |-> <<>>, watchers |-> <<>>, pool_id |-> 0,
     statistics |-> [watchers |-> 0, handlers |-> 0], open_handles |-> EmptyBag,
     tasks |-> EmptyBag, now |-> 0, crashed |-> FALSE, fwd |-> <<>>,
     write_to |-> NoWriteTo, trace |-> <<>>, ret |-> Undefined, overflow |-> FALSE]

Constructed(file_path, files, contents) ==
    \E w \in {Compiler(EmptyWorld, file_path)} :
        /\ fs = files
        /\ menu = contents
        /\ nodes = w.nodes
        /\ watchers = w.watchers
        /\ pool_id = w.pool_id
        /\ statistics = w.statistics
        /\ open_handles = w.open_handles
        /\ tasks = w.tasks
        /\ now = 0
        /\ crashed = FALSE
        /\ edits = 0
        /\ fwd = w.fwd
        /\ write_to = w.write_to
        /\ last = [op |-> "init", node |-> 0, path |-> file_path, id |-> 0,
                   trace |-> w.trace, before |-> <<>>]

\* File contents.
Inc(name) == <<"include(", "'", name, "'", ")", ";">>

NL == <<"\n">>

Text == <<"x", ";">>

\* The main tree: ./app/r includes a and b, a may include b.
RootPath == <<".", "app", "r">>

FileR == <<"app", "r">>

FileA == <<"app", "a">>

FileB == <<"app", "b">>

MenuMain ==
    (FileR :> {Inc("a") \o NL \o Inc("a"),
               Inc("a") \o NL \o Text \o NL \o Inc("b"),
               NL \o Inc("a"),
               Text})
    @@ (FileA :> {Text, Inc("b")})
    @@ (FileB :> {Text, Text \o NL \o Text})

Init ==
    \E r \in MenuMain[FileR] :
        Constructed(RootPath,
                    (FileR :> r) @@ (FileA :> Inc("b")) @@ (FileB :> Text),
                    MenuMain)

Spec == Init /\ [][Next]_vars

(***************************************************************************)
(* Properties.                                                             *)
(***************************************************************************)
\* A step in which node n completed a reconciliation.
Reconciled(n) ==
    /\ last'.op = "read"
    /\ last'.node = n
    /\ ~crashed'
    /\ nodes'[n].recals = nodes[n].recals + 1

\* A pointer the scan nested_data no longer backs at its line.
Stale(pointer, nested_data) ==
    ~(/\ pointer.line \in DOMAIN nested_data.files
      /\ nested_data.files[pointer.line].path = pointer.path)

PointersTo(self, P) ==
    {i \in 1..Len(self.nested_pointers) : self.nested_pointers[i].path = P}

LinesTo(nested_data, P) ==
    {l \in DOMAIN nested_data.files : nested_data.files[l].path = P}

EntriesFor(self, P) ==
    {i \in 1..Len(self.file_store) : self.file_store[i].path = P}

LiveChildren(ns, n, P) ==
    {c \in 1..Len(ns) : ns[c].parent = n /\ ns[c].path = P /\ ns[c].destroyed = 0}

DestroyLogs(trace, c) ==
    Cardinality({i \in 1..Len(trace) :
                    trace[i] = Event("log", c, "DESTROYED", trace[i].label)})

\* After the reconciliation of n: one entry and one live instance for every
\* path the scan points to, counted once per line that points to it.
OneInstancePerPath(n) ==
    LET nested_data == _get_included_files(nodes'[n])
        self == nodes'[n]
    IN  \A P \in {nested_data.files[l].path : l \in DOMAIN nested_data.files} :
            /\ Cardinality(EntriesFor(self, P)) = 1
            /\ LET e == self.file_store[Only(EntriesFor(self, P))]
               IN  /\ e.pointers = Cardinality(LinesTo(nested_data, P))
                   /\ Cardinality(PointersTo(self, P)) = e.pointers
                   /\ LiveChildren(nodes', n, P) = {e.node}

\* The reconciliation of n destroys, once, every counted child whose path
\* the new scan no longer resolves to, and removes its entry.
DroppedPathDestroyed(n) ==
    LET nested_data == _get_included_files(nodes'[n])
    IN  \A i \in 1..Len(nodes[n].file_store) :
            LET e == nodes[n].file_store[i]
            IN  (e.pointers >= 1 /\ e.path \notin nested_data.paths)
                => /\ nodes[e.node].destroyed = 0
                   /\ nodes'[e.node].destroyed = 1
                   /\ DestroyLogs(last'.trace, e.node) = 1
                   /\ EntriesFor(nodes'[n], e.path) = {}

\* C1: after a reconciliation whose scan has N >= 1 pointers to one path P,
\* the node's file store holds exactly one live child for P with count N; a
\* later reconciliation whose scan no longer resolves to P destroys that
\* child exactly once and removes it from the file store.
C1_ReferenceCount ==
    [][\A n \in 1..Len(nodes) :
           Reconciled(n) => OneInstancePerPath(n) /\ DroppedPathDestroyed(n)]_vars

\* A reconciliation has just destroyed and removed a child that two pointers
\* of the node shared.
C1_Witness ==
    /\ last.op = "read"
    /\ ~crashed
    /\ last.node \in 1..Len(last.before)
    /\ \E i \in 1..Len(last.before[last.node].file_store) :
           LET e == last.before[last.node].file_store[i]
           IN  /\ e.pointers = 2
               /\ Cardinality(PointersTo(last.before[last.node], e.path)) = 2
               /\ nodes[e.node].destroyed = 1
               /\ EntriesFor(nodes[last.node], e.path) = {}

\* Whether the reconciliation of n destroyed the child of entry e.
DestroyedBy(e) == nodes'[e.node].destroyed > nodes[e.node].destroyed

StalePointers(self, P, nested_data) ==
    {i \in PointersTo(self, P) : Stale(self.nested_pointers[i], nested_data)}

\* C2: a reconciliation destroys a child if and only if one of its pointers
\* became stale, its count thereby dropped to zero and its path is absent
\* from the paths of the new scan; a child whose count stays positive or
\* whose path is still included is not destroyed.
C2_DestroyedExactlyWhen ==
    [][\A n \in 1..Len(nodes) :
           Reconciled(n) =>
               LET nested_data == _get_included_files(nodes'[n])
               IN  \A i \in 1..Len(nodes[n].file_store) :
                       LET e == nodes[n].file_store[i]
                           stale == Cardinality(StalePointers(nodes[n], e.path,
                                                              nested_data))
                       IN  DestroyedBy(e) <=>
                               /\ stale >= 1
                               /\ e.pointers - stale < 1
                               /\ e.path \notin nested_data.paths]_vars

\* A reconciliation has just found the only pointer to a child stale and
\* kept the child, whose path the new scan includes at another line.
C2_Witness ==
    /\ last.op = "read"
    /\ ~crashed
    /\ last.node \in 1..Len(last.before)
    /\ \E i \in 1..Len(last.before[last.node].file_store) :
           LET e == last.before[last.node].file_store[i]
               was == last.before[last.node]
               self == nodes[last.node]
           IN  /\ e.pointers = 1
               /\ \A j \in PointersTo(was, e.path) :
                      \A k \in PointersTo(self, e.path) :
                          was.nested_pointers[j].line # self.nested_pointers[k].line
               /\ PointersTo(self, e.path) # {}
               /\ nodes[e.node].destroyed = 0
               /\ EntriesFor(self, e.path) # {}
               /\ self.file_store[Only(EntriesFor(self, e.path))].node = e.node

(***************************************************************************)
(* A tree whose files include each other, under each spelling of the root  *)
(* file's path.                                                            *)
(***************************************************************************)
RootSpellings == {<<".", "app", "r">>, <<"app", "r">>}

MenuCycle ==
    (FileR :> {Inc("r"), Inc("a"), Text})
    @@ (FileA :> {Inc("r"), Text})

InitCycle ==
    \E root \in RootSpellings : \E r \in {Inc("r"), Inc("a")} :
        Constructed(root, (FileR :> r) @@ (FileA :> Inc("r")), MenuCycle)

SpecCycle == InitCycle /\ [][Next]_vars

\* The files the paths of a node's ancestor chain name.
ChainFiles(self) == {OsResolve(self.forbidden[i]) : i \in 1..Len(self.forbidden)}

\* C3: no directive of a node that resolves to a path on the node's ancestor
\* chain, its own and the root's as given included, leaves a pointer or a
\* child, and so a branch has no more nodes than there are distinct files.
C3_CycleSafety ==
    \A n \in 1..Len(nodes) :
        /\ \A i \in 1..Len(nodes[n].nested_pointers) :
               OsResolve(nodes[n].nested_pointers[i].path) \notin ChainFiles(nodes[n])
        /\ \A i \in 1..Len(nodes[n].file_store) :
               OsResolve(nodes[n].file_store[i].path) \notin ChainFiles(nodes[n])
        /\ Len(nodes[n].hierarchy) <= Cardinality(DOMAIN fs)

(***************************************************************************)
(* The WatcherPool on its own: callers subscribe and unsubscribe their own *)
(* handlers while the files change.                                        *)
(***************************************************************************)
MaxIds == 2

\* How far unwatch calls that name no registration may run the handler
\* count of the statistics below zero.
MaxSpurious == 1

PoolPaths == {<<".", "app", "a">>, <<".", "app", "b">>}

MenuPool == (FileA :> {Text \o NL}) @@ (FileB :> {Text \o NL})

InitPool ==
    /\ fs = (FileA :> Text) @@ (FileB :> Text)
    /\ menu = MenuPool
    /\ nodes = <<>>
    /\ watchers = <<>>
    /\ pool_id = 0
    /\ statistics = [watchers |-> 0, handlers |-> 0]
    /\ open_handles = EmptyBag
    /\ tasks = EmptyBag
    /\ now = 0
    /\ crashed = FALSE
    /\ edits = 0
    /\ fwd = <<>>
    /\ write_to = NoWriteTo
    /\ last = [op |-> "init", node |-> 0, path |-> <<>>, id |-> 0,
               trace |-> <<>>, before |-> <<>>]

\* pool.watch(path, handler) by a caller.
PoolWatch ==
    \E path \in PoolPaths :
        /\ ~crashed
        /\ pool_id < MaxIds
        /\ \E w0 \in {World} : \E w \in {watch(w0, path, [kind |-> "ext", node |-> 0])} :
               Commit(w, "watch", 0, path, w.ret)
        /\ UNCHANGED <<fs, menu, now, edits>>

\* pool.unwatch(path, handler_id) by a caller.
PoolUnwatch ==
    \E path \in PoolPaths : \E handler_id \in 1..pool_id :
        /\ ~crashed
        /\ statistics.handlers + MaxSpurious > 0
        /\ \E w0 \in {World} : \E w \in {unwatch(w0, path, handler_id)} :
               Commit(w, "unwatch", 0, path, handler_id)
        /\ UNCHANGED <<fs, menu, now, edits>>

NextPool == PoolWatch \/ PoolUnwatch \/ EditAgain \/ TimerFire \/ Tick

SpecPool == InitPool /\ [][NextPool]_vars

Handles(handles, path) == CopiesIn(path, handles)

Ids(handlers) == {handlers[i].id : i \in 1..Len(handlers)}

\* C4: there is at most one open watch handle per path; the first watch of
\* a path opens it, and a watch of a path that has registrations appends a
\* registration to the entry and opens nothing.
C4_OneHandlePerPath ==
    [][/\ \A path \in PoolPaths :
              /\ Handles(open_handles', path) <= 1
              /\ Handles(open_handles', path) = 1 <=> path \in DOMAIN watchers'
       /\ last'.op = "watch" =>
              LET path == last'.path
              IN  IF path \in DOMAIN watchers
                  THEN /\ open_handles' = open_handles
                       /\ Len(watchers[path].handlers) >= 1
                       /\ Front(watchers'[path].handlers) = watchers[path].handlers
                       /\ Last(watchers'[path].handlers).id = last'.id
                       /\ last'.id \notin Ids(watchers[path].handlers)
                  ELSE /\ open_handles' = open_handles (+) SetToBag({path})
                       /\ Ids(watchers'[path].handlers) = {last'.id}]_vars

\* A second registration has just joined a path's entry, on its one handle.
C4_Witness ==
    /\ last.op = "watch"
    /\ last.path \in DOMAIN watchers
    /\ Len(watchers[last.path].handlers) = 2
    /\ Handles(open_handles, last.path) = 1

\* C5: unwatch(path, id) removes the registration with that id and no other,
\* and closes the handle and deletes the entry exactly when no registration
\* of the path remains.
C5_UnwatchExact ==
    [][last'.op = "unwatch" =>
           LET path == last'.path
               Other(h) == h.id # last'.id
           IN  IF path \in DOMAIN watchers
               THEN LET rest == SelectSeq(watchers[path].handlers, Other)
                    IN  IF rest = <<>>
                        THEN /\ path \notin DOMAIN watchers'
                             /\ Handles(open_handles', path) = 0
                             /\ Handles(open_handles, path) = 1
                        ELSE /\ path \in DOMAIN watchers'
                             /\ watchers'[path].handlers = rest
                             /\ open_handles' = open_handles
               ELSE watchers' = watchers /\ open_handles' = open_handles]_vars

\* An unwatch has just removed one of two registrations and left the other
\* on the open handle.
C5_Witness ==
    /\ last.op = "unwatch"
    /\ last.path \in DOMAIN watchers
    /\ Len(watchers[last.path].handlers) = 1
    /\ last.id \notin Ids(watchers[last.path].handlers)
    /\ last.id < watchers[last.path].handlers[1].id
    /\ Handles(open_handles, last.path) = 1

\* The step has forwarded a raw event of path.
Forwarded(path) ==
    \E i \in 1..Len(last'.trace) : last'.trace[i] = Event("forward", 0, "event", path)

Calls(trace) == {i \in 1..Len(trace) : trace[i].ev = "call"}

\* What _handle_update does with an event it forwards: the check passed on
\* the entry's last_update, which is set to the present at once; the
\* handlers are called by a timer that is due a call delay later.
ForwardedOnCheck(path) ==
    /\ path \in DOMAIN watchers
    /\ now - watchers[path].last_update > WatcherDelay
    /\ watchers'[path].last_update = now
    /\ tasks' = tasks (+) SetToBag({Task("timer", 0, path, now + CallDelay)})
    /\ Calls(last'.trace) = {}

\* C6 as stated: an event of a path is forwarded only if watcher_delay has
\* passed since the last forwarded event of that path, whose time is set
\* when the check passes and before any handler runs; so any two forwarded
\* events of one path are at least watcher_delay apart.
C6_DebouncePerPath ==
    [][\A path \in PoolPaths :
           Forwarded(path) =>
               /\ ForwardedOnCheck(path)
               /\ path \in DOMAIN fwd => now - fwd[path] >= WatcherDelay]_vars

\* C6 amended: the window belongs to the path's watcher entry.  An event is
\* forwarded only if more than watcher_delay has passed since the last
\* event the entry forwarded, and any two events one entry forwards are more
\* than watcher_delay apart; an entry made anew after the last unwatch of
\* the path starts with an open window.
C6_DebouncePerEntry ==
    [][\A path \in PoolPaths :
           /\ Forwarded(path) =>
                  /\ ForwardedOnCheck(path)
                  /\ watchers'[path].forwarded = Append(watchers[path].forwarded, now)
                  /\ watchers[path].forwarded # <<>> =>
                         /\ now - Last(watchers[path].forwarded) > WatcherDelay
                         /\ Last(watchers[path].forwarded) = watchers[path].last_update
           /\ (last'.op = "watch" /\ last'.path = path /\ path \notin DOMAIN watchers)
                  => /\ watchers'[path].forwarded = <<>>
                     /\ watchers'[path].last_update = now - WatcherDelay]_vars

\* An entry has just forwarded its second event, and handlers are bound.
C6_Witness ==
    /\ last.op = "edit"
    /\ \E path \in DOMAIN watchers :
           /\ \E i \in 1..Len(last.trace) :
                  last.trace[i] = Event("forward", 0, "event", path)
           /\ Len(watchers[path].forwarded) = 2
           /\ Last(watchers[path].forwarded) = now
           /\ Len(watchers[path].handlers) >= 1
           /\ \E t \in BagToSet(tasks) : t.k = "timer" /\ t.path = path

LifecycleEvents(trace, n) ==
    LET Mine(e) == /\ e.ev = "log"
                   /\ e.node = n
                   /\ e.what \in {"INITIALIZED", "DETECTED_CHANGES"}
    IN  SelectSeq(trace, Mine)

\* C7: a completed reconciliation of a node emits exactly one lifecycle
\* event, labelled with the node's hierarchy: INITIALIZED if it is the
\* node's first, DETECTED_CHANGES otherwise; nothing else emits one, so a
\* node emits INITIALIZED at most once and before any DETECTED_CHANGES.
C7_OneLifecycleEvent ==
    [][\A n \in 1..Len(nodes') :
           /\ LifecycleEvents(last'.trace, n) =
                  IF n <= Len(nodes) /\ Reconciled(n)
                  THEN <<Event("log", n,
                               IF nodes[n].recals = 0 THEN "INITIALIZED"
                               ELSE "DETECTED_CHANGES",
                               nodes[n].hierarchy)>>
                  ELSE <<>>
           /\ nodes'[n].inits <= 1
           /\ nodes'[n].in_order
           /\ nodes'[n].inits + nodes'[n].changes = nodes'[n].recals]_vars

\* A node below the root has just completed its second reconciliation.
C7_Witness ==
    /\ last.op = "read"
    /\ last.node \in 2..Len(nodes)
    /\ nodes[last.node].recals = 2
    /\ nodes[last.node].inits = 1
    /\ nodes[last.node].changes = 1
    /\ LifecycleEvents(last.trace, last.node) =
           <<Event("log", last.node, "DETECTED_CHANGES", nodes[last.node].hierarchy)>>

\* The recalibration notifications of node n's ancestors, nearest first.
RECURSIVE Notifications(_, _)
Notifications(ns, n) ==
    IF ns[n].parent = 0 THEN <<>>
    ELSE <<Event("notify", ns[n].parent, "recalibrate", ns[ns[n].parent].hierarchy)>>
         \o Notifications(ns, ns[n].parent)

\* The events of a trace from the point at which node n's pointers are final.
FromPointers(trace, n) ==
    LET at == {i \in 1..Len(trace) : trace[i].ev = "pointers" /\ trace[i].node = n}
    IN  IF Cardinality(at) = 1 THEN SubSeq(trace, Only(at), Len(trace)) ELSE <<>>

\* C8: in a reconciliation of a node the pointer update comes first, then
\* the lifecycle event, then the recalibration notification, which passes
\* through each ancestor from the parent up to the root and ends at the
\* Compiler's recalibration handler.
C8_LeafToRoot ==
    [][\A n \in 1..Len(nodes) :
           Reconciled(n) =>
               FromPointers(last'.trace, n) =
                   <<Event("pointers", n, "updated", nodes[n].hierarchy)>>
                   \o LifecycleEvents(last'.trace, n)
                   \o Notifications(nodes, n)
                   \o <<Event("sink", 0, "recalibrate", <<>>)>>]_vars

\* A node two levels below the root has just reconciled: its notification
\* passed its parent, then the root, then reached the Compiler.
C8_Witness ==
    /\ last.op = "read"
    /\ last.node \in 1..Len(nodes)
    /\ Len(nodes[last.node].hierarchy) = 3
    /\ Len(last.trace) >= 5
    /\ SubSeq(last.trace, Len(last.trace) - 2, Len(last.trace)) =
           Notifications(nodes, last.node) \o <<Event("sink", 0, "recalibrate", <<>>)>>
    /\ last.trace[Len(last.trace) - 3].ev = "log"
    /\ last.trace[Len(last.trace) - 4].ev = "pointers"

(***************************************************************************)
(* The scenario of a root that includes a (3 lines) at line 2 and b        *)
(* (2 lines) at line 4, counted in the file or in the node's content, in   *)
(* which only b is edited.  b may include c.                               *)
(***************************************************************************)
Other == <<"y", ";">>

FileC == <<"app", "c">>

PathA == <<".", "app", "a">>

PathB == <<".", "app", "b">>

RootLayouts ==
    {Text \o NL \o Inc("a") \o NL \o Text \o NL \o Inc("b"),
     Inc("a") \o NL \o Text \o NL \o Inc("b")}

MenuScenario ==
    (FileR :> {}) @@ (FileA :> {}) @@ (FileC :> {})
    @@ (FileB :> {Text \o NL \o Other, Inc("c") \o NL \o Other})

InitScenario ==
    \E r \in RootLayouts : \E b \in {Text \o NL \o Text, Inc("c") \o NL \o Text} :
        Constructed(RootPath,
                    (FileR :> r) @@ (FileA :> Text \o NL \o Text \o NL \o Text)
                    @@ (FileB :> b) @@ (FileC :> Text),
                    MenuScenario)

NextScenario == AccessDone \/ ReadDone \/ TimerFire \/ EditAgain \/ Tick

SpecScenario == InitScenario /\ [][NextScenario]_vars

\* Whether node m is node n or below it.
RECURSIVE Within(_, _, _)
Within(ns, m, n) ==
    IF m = n THEN TRUE
    ELSE IF ns[m].parent = 0 THEN FALSE
    ELSE Within(ns, ns[m].parent, n)

ChildrenAt(ns, n, path) == {c \in 1..Len(ns) : ns[c].parent = n /\ ns[c].path = path}

Sinks(trace) == {i \in 1..Len(trace) : trace[i].ev = "sink"}

AllLifecycleEvents(trace) ==
    LET Lifecycle(e) == e.ev = "log" /\ e.what \in {"INITIALIZED", "DETECTED_CHANGES"}
    IN  SelectSeq(trace, Lifecycle)

\* The reconciliations the nodes of S have completed between them.
RECURSIVE Reconciliations(_, _)
Reconciliations(ns, S) ==
    IF S = {} THEN 0
    ELSE LET c == CHOOSE x \in S : TRUE
         IN  ns[c].recals + Reconciliations(ns, S \ {c})

\* The tree had loaded, b included, and the one edit of b has been taken up
\* by a second load of b.
ScenarioSettled ==
    /\ edits = 1
    /\ tasks = EmptyBag
    /\ ~crashed
    /\ Reconciliations(nodes, ChildrenAt(nodes, 1, PathB)) = 2
    /\ \E b \in ChildrenAt(nodes, 1, PathB) :
           nodes[b].content = WrapContent("b", PathB, fs[FileB])

\* C9 as stated: the edit of b destroys b's node and builds another, leaves
\* a's instance, count and pointer as they were, and the root emits exactly
\* one DETECTED_CHANGES.
C9_RebuildAndRootChange ==
    ScenarioSettled =>
        /\ \E old \in ChildrenAt(nodes, 1, PathB) : nodes[old].destroyed = 1
        /\ \E new \in ChildrenAt(nodes, 1, PathB) : nodes[new].destroyed = 0
        /\ Cardinality(ChildrenAt(nodes, 1, PathA)) = 1
        /\ nodes[1].changes = 1

\* C9 amended: the reload that follows an edit of b reconciles b's node in
\* place.  b's node is neither destroyed nor replaced, no node outside b's
\* subtree changes (a's instance, its count and the root's pointers stay as
\* they are), the one lifecycle event is DETECTED_CHANGES labelled r/b, the
\* root emits none, and the Compiler's recalibration handler runs once.
C9_ReloadInPlace ==
    [][\A b \in 1..Len(nodes) :
           (/\ Reconciled(b)
            /\ nodes[b].path = PathB
            /\ nodes[b].parent = 1
            /\ nodes[b].recals >= 1)
           => /\ nodes'[b].destroyed = 0
              /\ ChildrenAt(nodes', 1, PathB) = {b}
              /\ \A m \in 1..Len(nodes) : ~Within(nodes, m, b) => nodes'[m] = nodes[m]
              /\ \A m \in (Len(nodes) + 1)..Len(nodes') : Within(nodes', m, b)
              /\ \E i \in 1..Len(nodes'[1].file_store) :
                     /\ nodes'[1].file_store[i].path = PathA
                     /\ nodes'[1].file_store[i].pointers = 1
                     /\ nodes'[nodes'[1].file_store[i].node].destroyed = 0
              /\ AllLifecycleEvents(last'.trace) =
                     <<Event("log", b, "DETECTED_CHANGES", <<"r", "b">>)>>
              /\ nodes'[1].changes = nodes[1].changes
              /\ Cardinality(Sinks(last'.trace)) = 1]_vars

\* b's node has just reloaded after the edit of b, and the tree is at rest.
C9_Witness ==
    /\ last.op = "read"
    /\ ScenarioSettled
    /\ last.node \in ChildrenAt(nodes, 1, PathB)
    /\ nodes[last.node].changes = 1
    /\ nodes[1].changes = 0
    /\ nodes[1].inits = 1

\* The nodes of the tree whose file exists.
LiveNodes == {n \in 1..Len(nodes) : nodes[n].destroyed = 0 /\ FileExists(nodes[n].path)}

\* No callback is pending: without another edit nothing more happens.
AtRest == tasks = EmptyBag /\ ~crashed

\* C10: once the edits of a file have stopped and every timer and I/O
\* callback has run, the content of the file's node is the file's final
\* content between its START_FILE and END_FILE markers; stated for the
\* nodes whose watcher has forwarded an event.
C10_ContentCatchesUp ==
    AtRest =>
        \A n \in LiveNodes :
            nodes[n].path \in DOMAIN fwd =>
                nodes[n].content =
                    WrapContent(nodes[n].file_name, nodes[n].path,
                                fs[OsResolve(nodes[n].path)])

(***************************************************************************)
(* C11: reconciling again with the same content changes nothing.           *)
(*                                                                         *)
(* The tree r -> a -> b, where a write may drop a from r while a reload of *)
(* a is on its way: two writes, the second within the first one's delay.   *)
(***************************************************************************)
MenuLate ==
    (FileR :> {Text}) @@ (FileA :> {Inc("b"), Text}) @@ (FileB :> {Text})

InitLate ==
    Constructed(RootPath,
                (FileR :> Inc("a")) @@ (FileA :> Inc("b")) @@ (FileB :> Text),
                MenuLate)

SpecLate == InitLate /\ [][NextScenario]_vars

\* The step reconciled node n, not for the first time, over the content it
\* already had.
ReconciledAgain(n) ==
    /\ Reconciled(n)
    /\ nodes[n].recals >= 1
    /\ nodes'[n].content = nodes[n].content

\* Nothing of node n's subtree changed in the step.
SameTree(n) ==
    /\ Len(nodes') = Len(nodes)
    /\ \A m \in 1..Len(nodes) : nodes'[m].destroyed = nodes[m].destroyed
    /\ nodes'[n].file_store = nodes[n].file_store
    /\ nodes'[n].nested_pointers = nodes[n].nested_pointers
    /\ chunks(nodes', n) = chunks(nodes, n)

\* C11: when a node is reconciled a second time with content identical to
\* the content it held (its children's contents untouched by the step), no
\* child is created or destroyed, no reference count and no pointer changes,
\* and chunks() returns a tree equal to the one before.
C11_Idempotent ==
    [][\A n \in 1..Len(nodes) : ReconciledAgain(n) => SameTree(n)]_vars

(***************************************************************************)
(* C12: the assembled text.                                                *)
(*                                                                         *)
(* A tree with indented directives: r includes a behind two spaces, a      *)
(* includes b behind "x" and a space or behind one space.                  *)
(***************************************************************************)
Indented(by, name) == by \o Inc(name)

FileRIndented == Text \o NL \o Indented(<<"  ">>, "a") \o NL \o Text

\* Four lines of text, then the directive.
FileRLong == Text \o NL \o Text \o NL \o Text \o NL \o Text \o NL \o Inc("b")

MenuAssembly ==
    (FileR :> {FileRIndented,
               FileRLong,
               Indented(<<" ">>, "b") \o NL \o Indented(<<"  ">>, "a"),
               Inc("a")})
    @@ (FileA :> {Indented(<<"x", " ">>, "b"),
                  Text \o NL \o Indented(<<" ">>, "b") \o NL \o Text})
    @@ (FileB :> {Text \o NL \o Text})

InitAssembly ==
    \E r \in {FileRIndented, Inc("a")} : \E a \in MenuAssembly[FileA] :
        Constructed(RootPath,
                    (FileR :> r) @@ (FileA :> a) @@ (FileB :> Text \o NL \o Text),
                    MenuAssembly)

SpecAssembly == InitAssembly /\ [][Next]_vars

\* The pointers of node n at line i of its content.
PointersAt(ns, n, i) ==
    {k \in 1..Len(ns[n].nested_pointers) : ns[n].nested_pointers[k].line = i}

RECURSIVE Flatten(_)
Flatten(seqs) == IF seqs = <<>> THEN <<>> ELSE Head(seqs) \o Flatten(Tail(seqs))

\* The lines node n contributes when the pointers above it sum to indent:
\* each of its own lines behind indent spaces, except that a line with a
\* pointer gives way to the lines of the pointer's child.
RECURSIVE RenderedLines(_, _, _)
RenderedLines(ns, n, indent) ==
    LET own == SplitOn(ns[n].content, "\n")
        Piece(i) ==
            IF PointersAt(ns, n, i) = {}
            THEN <<repeat_character(" ", indent) \o own[i]>>
            ELSE LET pointer == ns[n].nested_pointers[Only(PointersAt(ns, n, i))]
                     child == ns[n].file_store[StoreIndex(ns[n].file_store,
                                                          pointer.path)].node
                 IN  RenderedLines(ns, child, indent + pointer.spacing)
    IN  Flatten([i \in 1..Len(own) |-> Piece(i)])

\* The greatest sum of indentations from node n down to a loaded node.
RECURSIVE DeepestIndent(_, _, _)
DeepestIndent(ns, n, indent) ==
    LET Below == {DeepestIndent(ns, ns[n].file_store[StoreIndex(ns[n].file_store,
                                    ns[n].nested_pointers[k].path)].node,
                                indent + ns[n].nested_pointers[k].spacing) :
                    k \in 1..Len(ns[n].nested_pointers)}
        All == Below \cup {IF ns[n].content # <<>> THEN indent ELSE 0}
    IN  CHOOSE x \in All : \A y \in All : y <= x

\* C12: the assembled text is, line for line, the root's lines without a
\* prefix, each line L that has a pointer replaced in place by the lines of
\* the pointer's child (markers included), and every line of an included
\* node behind as many spaces as the indentations of the pointers from the
\* root down to it sum to.  Checked over files that can be read, where every
\* pointer's line is a line of its parent's content.
C12_Assembly ==
    /\ \A n \in 1..Len(nodes) : \A k \in 1..Len(nodes[n].nested_pointers) :
           /\ StoreIndex(nodes[n].file_store, nodes[n].nested_pointers[k].path) > 0
           /\ Cardinality(PointersAt(nodes, n, nodes[n].nested_pointers[k].line)) = 1
    /\ SplitOn(compiled(nodes), "\n") = RenderedLines(nodes, 1, 0)

\* The tree is loaded two levels deep, and the innermost file's lines stand
\* behind the sum of two indentations, each greater than zero.
C12_Witness ==
    /\ ~crashed
    /\ \E k \in 1..Len(nodes[1].nested_pointers) :
         LET p == nodes[1].nested_pointers[k]
             c == nodes[1].file_store[StoreIndex(nodes[1].file_store, p.path)].node
         IN  /\ p.spacing > 0
             /\ \E j \in 1..Len(nodes[c].nested_pointers) :
                  LET q == nodes[c].nested_pointers[j]
                      d == nodes[c].file_store[StoreIndex(nodes[c].file_store,
                                                          q.path)].node
                  IN  /\ q.spacing > 0
                      /\ nodes[d].content # <<>>
                      /\ DeepestIndent(nodes, 1, 0) = p.spacing + q.spacing
    /\ SplitOn(compiled(nodes), "\n") = RenderedLines(nodes, 1, 0)

(***************************************************************************)
(* C13: from a line of the assembled text back to its file.                *)
(***************************************************************************)
\* The value of an absent array element, and of a call that returns nothing.
Nothing == [found |-> FALSE]

\* +str for the digits of a line count of the text compiled_chunks.
ToNumber(str, compiled_chunks) ==
    IF \E k \in 0..Len(compiled_chunks) : ToString(k) = str
    THEN CHOOSE k \in 0..Len(compiled_chunks) : ToString(k) = str
    ELSE 0 - 1

\* Compiler._boundary_statement: the fields of a marker line, <<>> for a
\* line that is no marker.
_boundary_statement(string) ==
    LET start_prefix == FirstIndex(string, "//_ START_FILE | ") > 0
        end_prefix == FirstIndex(string, "//_ END_FILE | ") > 0
        start_check == start_prefix \/ end_prefix
        end_check == FirstIndex(string, " LINES _//") > 0
    IN  IF start_check /\ end_check
        THEN IF start_prefix
             THEN <<<<"START">>>> \o SplitOn(SplitOn(string, "//_ START_FILE | ")[2], " | ")
             ELSE <<<<"END">>>> \o SplitOn(SplitOn(string, "//_ END_FILE | ")[2], " | ")
        ELSE <<>>

\* compiled_chunks[index], index counted from 0.
LineAt(compiled_chunks, index) ==
    IF index >= 0 /\ index < Len(compiled_chunks) THEN [found |-> TRUE, str |-> compiled_chunks[index + 1]]
    ELSE Nothing

\* A string is truthy unless it is empty.
Truthy(cursor) == cursor.found /\ cursor.str # <<>>

\* The result a marker line gives _relative_file, Nothing if it gives none.
BoundaryResult(cursor, type, move_count, compiled_chunks) ==
    IF ~Truthy(cursor) THEN Nothing
    ELSE Bind(_boundary_statement(cursor.str), LAMBDA boundary :
         IF boundary # <<>> /\ boundary[1] = <<type>>
         THEN Bind(ToNumber(boundary[4][1], compiled_chunks), LAMBDA total_lines :
                   [found |-> TRUE,
                    path |-> Concat(boundary[3]),
                    total_lines |-> total_lines,
                    relative_line |-> IF type = "START" THEN move_count
                                      ELSE total_lines - move_count - 1])
         ELSE Nothing)

\* A variant of the loop in which a START met upwards is kept when an END
\* is met downwards in the same round.
RECURSIVE RelativeFileLoopUpFirst(_, _, _)
RelativeFileLoopUpFirst(compiled_chunks, line, move_count) ==
    Bind(LineAt(compiled_chunks, line - move_count), LAMBDA cursor_up :
    Bind(LineAt(compiled_chunks, line + move_count), LAMBDA cursor_down :
         IF ~(Truthy(cursor_up) \/ Truthy(cursor_down)) THEN Nothing
         ELSE
         Bind(BoundaryResult(cursor_up, "START", move_count, compiled_chunks), LAMBDA up :
         Bind(BoundaryResult(cursor_down, "END", move_count, compiled_chunks), LAMBDA down :
              IF up.found THEN up
              ELSE IF down.found THEN down
              ELSE RelativeFileLoopUpFirst(compiled_chunks, line, move_count + 1)))))

\* The while loop of _relative_file; line counts from 0.
RECURSIVE RelativeFileLoop(_, _, _)
RelativeFileLoop(compiled_chunks, line, move_count) ==
    Bind(LineAt(compiled_chunks, line - move_count), LAMBDA cursor_up :
    Bind(LineAt(compiled_chunks, line + move_count), LAMBDA cursor_down :
         IF ~(Truthy(cursor_up) \/ Truthy(cursor_down)) THEN Nothing
         ELSE
         Bind(BoundaryResult(cursor_up, "START", move_count, compiled_chunks), LAMBDA up :
         Bind(BoundaryResult(cursor_down, "END", move_count, compiled_chunks), LAMBDA down :
              IF down.found THEN down
              ELSE IF up.found THEN up
              ELSE RelativeFileLoop(compiled_chunks, line, move_count + 1)))))

\* Compiler._relative_file(line, compiled_chunks)
_relative_file(line, compiled_chunks) == RelativeFileLoop(compiled_chunks, line - 1, 0)

\* For every line of the text of node n, the node it comes from and its
\* place (from 1) among that node's own lines.
RECURSIVE Provenance(_, _)
Provenance(ns, n) ==
    LET own == SplitOn(ns[n].content, "\n")
        Piece(i) ==
            IF PointersAt(ns, n, i) = {}
            THEN <<[node |-> n, index |-> i]>>
            ELSE LET pointer == ns[n].nested_pointers[Only(PointersAt(ns, n, i))]
                 IN  Provenance(ns, ns[n].file_store[StoreIndex(ns[n].file_store,
                                                               pointer.path)].node)
    IN  Flatten([i \in 1..Len(own) |-> Piece(i)])

\* Line pos of the assembled text is one of node n's own lines, strictly
\* between its markers.
OwnLine(ns, prov, pos) ==
    /\ ns[prov[pos].node].content # <<>>
    /\ prov[pos].index > 1
    /\ prov[pos].index < Len(SplitOn(ns[prov[pos].node].content, "\n"))

\* C13: for every line of the assembled text that is one of a node's own
\* lines strictly between the node's START_FILE and END_FILE markers,
\* locate(line) returns the node's path and the line's offset from the
\* node's start marker.
C13_LocateRoundTrip ==
    \/ chunks(nodes, 1).kind # "chunk"
    \/ LET text == SplitOn(compiled(nodes), "\n")
           prov == Provenance(nodes, 1)
       IN  \A pos \in 1..Len(prov) :
             OwnLine(nodes, prov, pos) =>
               LET located == _relative_file(pos, text)
               IN  /\ located.found
                   /\ located.path = JoinPath(nodes[prov[pos].node].path)
                   /\ located.relative_line = prov[pos].index - 1

(***************************************************************************)
(* C14: the markers around a file's content.                               *)
(***************************************************************************)
\* The fields <<type, base name, path, line count>> of a marker line.
MarkerFields(string, lines) ==
    LET boundary == _boundary_statement(string)
    IN  IF boundary = <<>> \/ Len(boundary) # 4 THEN <<>>
        ELSE <<boundary[1][1], Concat(boundary[2]), Concat(boundary[3]),
               ToNumber(boundary[4][1], lines)>>

\* The markers of the lines from i on close in the reverse order of their
\* opening, each END carrying the fields of its START; open is the stack of
\* the markers still open.
RECURSIVE Nested(_, _, _)
Nested(lines, i, open) ==
    IF i > Len(lines) THEN open = <<>>
    ELSE LET fields == MarkerFields(lines[i], lines)
         IN  IF fields = <<>> THEN Nested(lines, i + 1, open)
             ELSE IF fields[1] = "START"
             THEN Nested(lines, i + 1, Append(open, Tail(fields)))
             ELSE /\ open # <<>>
                  /\ Last(open) = Tail(fields)
                  /\ Nested(lines, i + 1, Front(open))

\* The number of START markers among the lines.
Starts(lines) ==
    Cardinality({i \in 1..Len(lines) :
                   MarkerFields(lines[i], lines) # <<>>
                   /\ MarkerFields(lines[i], lines)[1] = "START"})

\* The content node n holds is its file's content as it is now between a
\* START_FILE line and an END_FILE line with the same base name, path and
\* line count, the count being the file's newlines + 3.
Wrapped(n) ==
    LET raw == fs[OsResolve(nodes[n].path)]
        lines == SplitOn(nodes[n].content, "\n")
        expected == <<nodes[n].file_name, JoinPath(nodes[n].path),
                      NewlineCount(raw) + 3>>
    IN  /\ Len(lines) >= 3
        /\ MarkerFields(lines[1], lines) = <<"START">> \o expected
        /\ MarkerFields(lines[Len(lines)], lines) = <<"END">> \o expected
        /\ \A i \in 1..Len(lines) :
             MarkerFields(lines[i], lines) # <<>> => i \in {1, Len(lines)}
        /\ JoinLines(SubSeq(lines, 2, Len(lines) - 1)) = raw
        /\ Len(lines) = NewlineCount(raw) + 3

\* C14: after a successful read the node's content is a START_FILE marker
\* line, the file's content and an END_FILE marker line, both markers with
\* the node's base name, its path and total_lines = newlines of the file's
\* content + 3; and in the assembled text the START and END markers of all
\* nodes are balanced and properly nested.
C14_MarkerProtocol ==
    /\ (last.op = "read" /\ FileExists(nodes[last.node].path)) => Wrapped(last.node)
    /\ chunks(nodes, 1).kind = "chunk"
    /\ Nested(SplitOn(compiled(nodes), "\n"), 1, <<>>)

\* A file of two lines was read two levels below the root, and the
\* assembled text holds the markers of three nodes.
C14_Witness ==
    /\ last.op = "read"
    /\ nodes[last.node].parent > 1
    /\ NewlineCount(fs[OsResolve(nodes[last.node].path)]) = 1
    /\ Wrapped(last.node)
    /\ Starts(SplitOn(compiled(nodes), "\n")) = 3
    /\ Nested(SplitOn(compiled(nodes), "\n"), 1, <<>>)

(***************************************************************************)
(* C15: a read that fails.                                                 *)
(*                                                                         *)
(* The environment may delete a file; its open handles get the raw event   *)
(* of the deletion, and a read or an access of the path fails from then on.*)
(***************************************************************************)
Delete ==
    \E f \in DOMAIN fs :
        /\ ~crashed
        /\ fs' = [g \in DOMAIN fs \ {f} |-> fs[g]]
        /\ \E w0 \in {World} : \E w \in {RawEvents(w0, f, BagToSet(open_handles))} :
               Commit(w, "delete", 0, f, 0)
        /\ UNCHANGED <<menu, now, edits>>

MenuMissing == (FileR :> {Inc("a")}) @@ (FileA :> {Text})

\* r includes a and b; b is missing from the start.
InitMissing ==
    Constructed(RootPath,
                (FileR :> Inc("a") \o NL \o Inc("b")) @@ (FileA :> Text),
                MenuMissing)

NextMissing == AccessDone \/ ReadDone \/ TimerFire \/ Edit \/ Delete \/ Tick

SpecMissing == InitMissing /\ [][NextMissing]_vars

\* The errors the step handed to the error handler for path.
ErrorsFor(trace, path) ==
    {i \in 1..Len(trace) : trace[i].ev = "error" /\ trace[i].label = path}

\* The step was the callback of a read of node n's file that failed.
FailedRead(n) ==
    /\ last'.op = "read"
    /\ last'.node = n
    /\ ~FileExists(nodes[n].path)

\* Node n has been watched: its file was there when the node was made.
Watched(n) == nodes[n].watcher_id # Undefined

\* Everything but node n's content and the log is as it was.
RestUnchanged(n) ==
    /\ Len(nodes') = Len(nodes)
    /\ \A m \in 1..Len(nodes) :
         m # n => nodes'[m] = nodes[m]
    /\ nodes'[n].file_store = nodes[n].file_store
    /\ nodes'[n].nested_pointers = nodes[n].nested_pointers
    /\ watchers' = watchers
    /\ open_handles' = open_handles
    /\ statistics' = statistics

\* C15: every failed read of a node's file, at creation or on a later
\* reload, hands error(path, error) to the error sink, throws nothing, and
\* leaves the rest of the tree, its counts and its subscriptions unchanged.
\* For a file missing at creation the error of the node's access check,
\* handed to the sink for the same path, is taken as the report.
C15_ReadFailureReported ==
    [][\A n \in 1..Len(nodes) :
         FailedRead(n) =>
           /\ ~crashed'
           /\ RestUnchanged(n)
           /\ \/ ErrorsFor(last'.trace, nodes[n].path) # {}
              \/ ~Watched(n)]_vars

(***************************************************************************)
(* C16: a watch that fails.                                                *)
(*                                                                         *)
(* Callers of the pool subscribe to paths whose files may have been        *)
(* removed.                                                                *)
(***************************************************************************)
NextPoolMissing == PoolWatch \/ PoolUnwatch \/ Delete \/ EditAgain \/ TimerFire \/ Tick

SpecPoolMissing == InitPool /\ [][NextPoolMissing]_vars

\* The events of kind ev in a trace.
EventsOf(trace, ev) == {i \in 1..Len(trace) : trace[i].ev = ev}

\* C16: when subscribe runs for a path whose file no longer exists and the
\* watch handle cannot be made, the failure is reported to the error sink
\* under the path, no exception leaves subscribe, and the registrations
\* that exist are left as they were.
C16_WatchFailureReported ==
    [][(/\ last'.op = "watch"
        /\ last'.path \notin DOMAIN watchers
        /\ ~FileExists(last'.path))
       => /\ EventsOf(last'.trace, "throw") = {}
          /\ ~crashed'
          /\ ErrorsFor(last'.trace, last'.path) # {}
          /\ watchers' = watchers
          /\ open_handles' = open_handles]_vars

(***************************************************************************)
(* C17: Compiler.destroy().                                                *)
(***************************************************************************)
\* WatcherPool.destroy: #watchers is a plain object, which has no forEach;
\* the call throws before any handle is closed.
PoolDestroy(w) == Throw(w, 0, "TypeError")

\* Compiler.destroy: the root file, then the pool.
CompilerDestroy(w) ==
    Bind(destroy(w, 1), LAMBDA w1 : PoolDestroy(w1))

\* The caller destroys the compiler, once.
DestroyCall ==
    /\ ~crashed
    /\ nodes[1].destroyed = 0
    /\ \E w0 \in {World} : \E w \in {CompilerDestroy(w0)} :
           Commit(w, "destroy", 0, nodes[1].path, 0)
    /\ UNCHANGED <<fs, menu, now, edits>>

NextDestroy == AccessDone \/ ReadDone \/ TimerFire \/ Edit \/ DestroyCall \/ Tick

SpecDestroy == InitLate /\ [][NextDestroy]_vars

\* C17: Compiler.destroy() completes normally; after it every node of the
\* tree has emitted DESTROYED exactly once, the pool holds no registration
\* and no open watch handle for any path, and its bookkeeping is empty.
C17_DestroyCompletes ==
    [][last'.op = "destroy" =>
         /\ EventsOf(last'.trace, "throw") = {}
         /\ ~crashed'
         /\ \A n \in 1..Len(nodes') : nodes'[n].destroyed = 1
         /\ watchers' = <<>>
         /\ open_handles' = EmptyBag
         /\ statistics' = [watchers |-> 0, handlers |-> 0]]_vars

(***************************************************************************)
(* C18: one call of the recalibration sink per reconciliation.             *)
(***************************************************************************)
\* The nodes strictly above node n.
Ancestors(ns, n) == {m \in 1..Len(ns) : m # n /\ Within(ns, n, m)}

\* The number of nodes above node n.
Depth(ns, n) == Cardinality(Ancestors(ns, n))

\* C18: a completed reconciliation of a node at any depth calls the
\* recalibration sink of the Compiler exactly once, and no node above it
\* reconciles or emits a lifecycle event because of it.
C18_OneSinkCall ==
    [][\A n \in 1..Len(nodes) :
         Reconciled(n) =>
           /\ Cardinality(Sinks(last'.trace)) = 1
           /\ \A m \in Ancestors(nodes, n) :
                /\ nodes'[m].recals = nodes[m].recals
                /\ nodes'[m].inits = nodes[m].inits
                /\ nodes'[m].changes = nodes[m].changes
                /\ LifecycleEvents(last'.trace, m) = <<>>]_vars

\* A node two levels below the root has reconciled, and the sink was called
\* once.
C18_Witness ==
    /\ last.op = "read"
    /\ ~crashed
    /\ last.node \in 1..Len(last.before)
    /\ Depth(nodes, last.node) = 2
    /\ nodes[last.node].recals = last.before[last.node].recals + 1
    /\ Cardinality(Sinks(last.trace)) = 1

(***************************************************************************)
(* C19: rewriting an error report.                                         *)
(*                                                                         *)
(* A report is a sequence of lines, a line the sequence of its tokens (the *)
(* pieces between spaces), a token a sequence of atoms: names, numerals    *)
(* and the punctuation ":", "(", ")", "/", "\".                            *)
(***************************************************************************)
\* The greatest line number a report names.
MaxLineNumber == 9

\* write_to.file_name by default: compiled_ and the root's name.
ArtifactName == "compiled_" \o FileNameOf(RootPath)

\* Compiler._error_line(str, file_name) over the atoms of str; 0 stands for
\* every falsy result (undefined, NaN and 0).
_error_line(str, file_name) ==
    LET NameIndex(s) ==
            IF \E i \in 1..(Len(s) - 1) : s[i] = file_name /\ s[i + 1] = ":"
            THEN CHOOSE i \in 1..(Len(s) - 1) :
                     /\ s[i] = file_name /\ s[i + 1] = ":"
                     /\ \A j \in 1..(i - 1) : ~(s[j] = file_name /\ s[j + 1] = ":")
            ELSE 0
        NotSpace(atom) == atom # " "
        \* +string: surrounding spaces are dropped, the empty string is 0.
        Number(s) ==
            LET trimmed == SelectSeq(s, NotSpace)
            IN  IF Len(trimmed) = 1
                   /\ \E k \in 0..MaxLineNumber : ToString(k) = trimmed[1]
                THEN CHOOSE k \in 0..MaxLineNumber : ToString(k) = trimmed[1]
                ELSE 0
        idx == NameIndex(str)
        rest == SubSeq(str, idx + 2, Len(str))
        next_idx == NameIndex(rest)
        piece == IF next_idx = 0 THEN rest ELSE SubSeq(rest, 1, next_idx - 1)
    IN  IF idx = 0 THEN 0 ELSE Number(SplitOn(piece, ":")[1])

\* Path.resolve of a path string the nodes ns know, as a string.
PathResolve(str, ns) ==
    LET known == {ns[n].path : n \in {m \in 1..Len(ns) : JoinPath(ns[m].path) = str}}
    IN  IF known = {} THEN str
        ELSE "/cwd/" \o JoinPath(OsResolve(Only(known)))

\* Compiler._relativize_error(error, compiled) for the artifact file_name.
_relativize_error(error, compiled_text, file_name, ns) ==
    LET Slashes(token) ==
            [i \in 1..Len(token) |-> IF token[i] = "\\" THEN "/" ELSE token[i]]
        LineString(tokens) ==
            Flatten([i \in 1..Len(tokens) |->
                        IF i = 1 THEN tokens[i] ELSE <<" ">> \o tokens[i]])
        compiled_chunks == SplitOn(compiled_text, "\n")
        error_chunks == [i \in 1..Len(error) |->
                            [cx \in 1..Len(error[i]) |-> Slashes(error[i][cx])]]
        Rewritten(cx_current) ==
            LET error_line == _error_line(cx_current, file_name)
                relative_file == _relative_file(error_line, compiled_chunks)
            IN  IF error_line # 0 /\ relative_file.found
                THEN <<"[", PathResolve(relative_file.path, ns), ":",
                       ToString(relative_file.relative_line), "]">>
                ELSE cx_current
    IN  [i \in 1..Len(error_chunks) |->
            IF _error_line(LineString(error_chunks[i]), file_name) # 0
            THEN [cx \in 1..Len(error_chunks[i]) |-> Rewritten(error_chunks[i][cx])]
            ELSE error_chunks[i]]

\* Lines of a report: a stack frame in the artifact, the header of a syntax
\* error, a frame in another file, a message that names the artifact before
\* a frame, and a frame in a file of a Windows path.
ErrorLines ==
    {<<<<"at">>, <<"(", "/", "out", "/", ArtifactName, ":", "4", ":", "1", ")">>>>,
     <<<<"/", "out", "/", ArtifactName, ":", "2">>>>,
     <<<<"at">>, <<"lib", ":", "4", ":", "1">>>>,
     <<<<"in">>, <<ArtifactName, ":">>, <<"see">>, <<ArtifactName, ":", "4">>>>,
     <<<<"at">>, <<"C", ":", "\\", "lib", ":", "3">>>>,
     <<<<ArtifactName, ":", "9">>>>}

\* The reports: one line or two.
Reports == {<<l>> : l \in ErrorLines} \cup {<<l, k>> : l \in ErrorLines, k \in ErrorLines}

\* A report is rewritten against the text assembled at the moment.
Relativize ==
    \E error \in Reports :
        /\ ~crashed
        /\ chunks(nodes, 1).kind = "chunk"
        /\ last' = [op |-> "relativize", node |-> 0, path |-> <<>>, id |-> 0,
                    trace |-> <<Event("report", 0, error,
                                      _relativize_error(error, compiled(nodes),
                                                        ArtifactName, nodes))>>,
                    before |-> nodes]
        /\ UNCHANGED <<fs, menu, nodes, watchers, pool_id, statistics, open_handles,
                       tasks, now, crashed, edits, fwd, write_to>>

NextReport == AccessDone \/ ReadDone \/ Relativize

SpecReport == InitLate /\ [][NextReport]_vars

\* The line a token of the form <artifact name>:<line> names, 0 if the
\* token has not that form.
ReferencedLine(token) ==
    LET At(i) == /\ token[i] = ArtifactName
                 /\ token[i + 1] = ":"
                 /\ \E k \in 1..MaxLineNumber : ToString(k) = token[i + 2]
    IN  IF \E i \in 1..(Len(token) - 2) : At(i)
        THEN LET i == CHOOSE i \in 1..(Len(token) - 2) :
                          At(i) /\ \A j \in 1..(i - 1) : ~At(j)
             IN  CHOOSE k \in 1..MaxLineNumber : ToString(k) = token[i + 2]
        ELSE 0

\* What the claim makes of a token against the assembled text.
ExpectedToken(token, text, ns) ==
    LET located == _relative_file(ReferencedLine(token), text)
    IN  IF ReferencedLine(token) # 0 /\ located.found
        THEN <<"[", PathResolve(located.path, ns), ":",
               ToString(located.relative_line), "]">>
        ELSE token

\* C19: in the rewritten report every token <artifact name>:<line> whose
\* line the position mapper locates is [<resolved path>:<relative line>],
\* and every other token of every line is the token of the input.
C19_ReportRewritten ==
    last.op = "relativize" =>
        LET error == last.trace[1].what
            rewritten == last.trace[1].label
            text == SplitOn(compiled(nodes), "\n")
        IN  rewritten = [i \in 1..Len(error) |->
                            [cx \in 1..Len(error[i]) |->
                                ExpectedToken(error[i][cx], text, nodes)]]

(***************************************************************************)
(* C20: the writes of the compiled file.                                   *)
(***************************************************************************)
\* The file path + file_name names, as the file system keys it.
ArtifactFile(path) == OsResolve(Front(path) \o <<Last(path) \o ArtifactName>>)

\* A report as one string: its lines joined by newlines, the tokens of a
\* line by spaces.
ReportString(report) ==
    LET LineString(tokens) ==
            Flatten([i \in 1..Len(tokens) |->
                        IF i = 1 THEN tokens[i] ELSE <<" ">> \o tokens[i]])
    IN  Flatten([i \in 1..Len(report) |->
                    IF i = 1 THEN LineString(report[i])
                    ELSE <<"\n">> \o LineString(report[i])])

\* relative_trace.split('\\').join('\\\\'): every backslash is doubled.
EscapeBackslashes(str) ==
    Flatten([i \in 1..Len(str) |->
                IF str[i] = "\\" THEN <<"\\", "\\">> ELSE <<str[i]>>])

\* trace_code: the script that replaces the compiled file after a syntax
\* error, the trace inside a template literal.
TraceCode(relative_trace) ==
    <<"console.error(", "BACKTICK">> \o relative_trace
    \o <<"BACKTICK", ");", "\n", "  ", "process.exit(1);">>

\* What `node -c` writes to stderr for a syntax error in line k of the
\* file: the file and the line, the text of the line, and the error.
SyntaxErrorOutput(path, content, k) ==
    <<<<Front(path) \o <<Last(path), ArtifactName, ":", ToString(k)>>>>,
      SplitOn(SplitOn(content, "\n")[k], " "),
      <<<<"SyntaxError">>>>>>

\* The callback of the first _write_file of _perform_write: the file holds
\* the content, and with relative_errors set the syntax check starts.
WriteFileDone ==
    \E t \in BagToSet(tasks) :
        /\ ~crashed
        /\ t.k = "written"
        /\ fs' = (ArtifactFile(write_to.path) :> t.path) @@ fs
        /\ \E w0 \in {Take(t)} : \E w \in {AddTask(w0, Task("syntax", 0, t.path, 0))} :
               Commit(w, "written", 0, t.path, 0)
        /\ UNCHANGED <<menu, now, edits>>

\* The callback of exec in _test_syntax resolves: nothing more is done.
SyntaxPassed ==
    \E t \in BagToSet(tasks) :
        /\ ~crashed
        /\ t.k = "syntax"
        /\ \E w \in {Take(t)} : Commit(w, "syntax_ok", 0, t.path, 0)
        /\ UNCHANGED <<fs, menu, now, edits>>

\* The callback of exec in _test_syntax rejects with stderr, for an error
\* in some line of the file: the catch block relativizes the trace against
\* the content that was written, logs, and starts the write of trace_code.
SyntaxFailed ==
    \E t \in BagToSet(tasks) :
        /\ ~crashed
        /\ t.k = "syntax"
        /\ \E k \in 1..MaxLineNumber :
             /\ k <= Len(SplitOn(fs[ArtifactFile(write_to.path)], "\n"))
             /\ \E syntax_error \in {SyntaxErrorOutput(write_to.path,
                                                       fs[ArtifactFile(write_to.path)], k)} :
                \E relative_trace \in {_relativize_error(syntax_error, t.path,
                                                         ArtifactName, nodes)} :
                \E w0 \in {Take(t)} :
                \E w1 \in {Emit(w0, Event("report", 0, syntax_error, relative_trace))} :
                \E w2 \in {Emit(w1, Event("log", 0, "SYNTAX_ERROR", <<>>))} :
                \E w \in {AddTask(w2, Task("stub", 0,
                                            TraceCode(EscapeBackslashes(
                                                ReportString(relative_trace))), 0))} :
                    Commit(w, "syntax_error", 0, t.path, 0)
        /\ UNCHANGED <<fs, menu, now, edits>>

\* The callback of the second _write_file: the file holds trace_code.
StubWritten ==
    \E t \in BagToSet(tasks) :
        /\ ~crashed
        /\ t.k = "stub"
        /\ fs' = (ArtifactFile(write_to.path) :> t.path) @@ fs
        /\ \E w \in {Take(t)} : Commit(w, "stub", 0, t.path, 0)
        /\ UNCHANGED <<menu, now, edits>>

\* Compiler.write_to({ path }): the path as written back from its chunks.
WriteTo(w, path) ==
    [w EXCEPT !.write_to.path = chunks_to_path(path_to_chunks(path, FALSE, "_sys_root"))]

\* new Compiler({ file_path }) and write_to({ path: './' }) at once.
InitWrite ==
    \E w \in {WriteTo(Compiler(EmptyWorld, RootPath), <<".", "">>)} :
        /\ fs = (FileR :> Inc("a")) @@ (FileA :> Inc("b")) @@ (FileB :> Text)
        /\ menu = MenuLate @@ (ArtifactFile(w.write_to.path) :> {})
        /\ nodes = w.nodes
        /\ watchers = w.watchers
        /\ pool_id = w.pool_id
        /\ statistics = w.statistics
        /\ open_handles = w.open_handles
        /\ tasks = w.tasks
        /\ now = 0
        /\ crashed = FALSE
        /\ edits = 0
        /\ fwd = w.fwd
        /\ write_to = w.write_to
        /\ last = [op |-> "init", node |-> 0, path |-> RootPath, id |-> 0,
                   trace |-> w.trace, before |-> <<>>]

\* The callback of the timer _perform_write sets.
WriteTimerFire ==
    \E t \in BagToSet(tasks) :
        /\ ~crashed
        /\ t.k = "write"
        /\ t.due <= now
        /\ \E w0 \in {Take(t)} : \E w \in {_perform_write(w0)} :
               Commit(w, "write_timer", 0, <<>>, 0)
        /\ UNCHANGED <<fs, menu, now, edits>>

NextWrite ==
    \/ AccessDone \/ ReadDone \/ TimerFire \/ WriteTimerFire \/ Edit \/ Tick
    \/ WriteFileDone \/ SyntaxPassed \/ SyntaxFailed \/ StubWritten

SpecWrite == InitWrite /\ [][NextWrite]_vars

\* The write timers that are outstanding.
WriteTimers(b) ==
    LET S == {t \in BagToSet(b) : t.k = "write"}
        RECURSIVE Count(_)
        Count(T) == IF T = {} THEN 0
                    ELSE LET t == CHOOSE x \in T : TRUE
                         IN  CopiesIn(t, b) + Count(T \ {t})
    IN  Count(S)

\* C20: a write asked for less than write_delay after the last write is
\* deferred and not dropped (a timer is outstanding after it); at no time
\* is more than one deferred write timer outstanding; and a timer that
\* fires writes the text assembled at that moment.
C20_WriteRateLimit ==
    /\ [](WriteTimers(tasks) <= 1)
    /\ [][(/\ Sinks(last'.trace) # {}
           /\ now - write_to.last_write < WriteDelay)
          => WriteTimers(tasks') >= 1]_vars
    /\ [][last'.op = "write_timer"
          => \E i \in 1..Len(last'.trace) :
                 /\ last'.trace[i].ev = "write"
                 /\ last'.trace[i].what = RelativeLoggerCode \o compiled(nodes')]_vars

(***************************************************************************)
(* C21: the syntax check of the written file.                              *)
(***************************************************************************)
\* A line of code that holds a template literal.
Quoted == <<"y", "=", "BACKTICK", "a", "BACKTICK", ";">>

MenuSyntax ==
    (FileR :> {Inc("a") \o NL \o Text}) @@ (FileA :> {Text, Quoted})

\* new Compiler({ file_path }) and write_to({ path: './' }) over r, which
\* includes a.
InitSyntax ==
    \E w \in {WriteTo(Compiler(EmptyWorld, RootPath), <<".", "">>)} :
    \E a \in MenuSyntax[FileA] :
        /\ fs = (FileR :> Inc("a") \o NL \o Text) @@ (FileA :> a)
        /\ menu = MenuSyntax @@ (ArtifactFile(w.write_to.path) :> {})
        /\ nodes = w.nodes
        /\ watchers = w.watchers
        /\ pool_id = w.pool_id
        /\ statistics = w.statistics
        /\ open_handles = w.open_handles
        /\ tasks = w.tasks
        /\ now = 0
        /\ crashed = FALSE
        /\ edits = 0
        /\ fwd = w.fwd
        /\ write_to = w.write_to
        /\ last = [op |-> "init", node |-> 0, path |-> RootPath, id |-> 0,
                   trace |-> w.trace, before |-> <<>>]

SpecSyntax == InitSyntax /\ [][NextWrite]_vars

\* The value of the template literal whose source text is str: a doubled
\* backslash is one backslash, a single one starts an escape.
RECURSIVE TemplateValue(_)
TemplateValue(str) ==
    IF str = <<>> THEN <<>>
    ELSE IF Head(str) = "\\"
         THEN IF Len(str) >= 2 /\ str[2] = "\\"
              THEN <<"\\">> \o TemplateValue(SubSeq(str, 3, Len(str)))
              ELSE TemplateValue(SubSeq(str, 3, Len(str)))
    ELSE <<Head(str)>> \o TemplateValue(Tail(str))

\* What running the script with node prints on stderr before it exits
\* with status 1: the value of the template literal handed to
\* console.error, the literal ending at the first backtick after its
\* opening one; a script of another form is a syntax error of its own.
Printed(script) ==
    LET rest == SubSeq(script, 3, Len(script))
        close == FirstIndex(rest, "BACKTICK")
    IN  IF /\ Len(script) >= 3
           /\ SubSeq(script, 1, 2) = <<"console.error(", "BACKTICK">>
           /\ close > 0
           /\ SubSeq(rest, close + 1, Len(rest)) = <<");", "\n", "  ", "process.exit(1);">>
        THEN TemplateValue(SubSeq(rest, 1, close - 1))
        ELSE <<"SyntaxError">>

\* The tasks of kind k a step leaves that it did not find.
Started(k) ==
    {t \in BagToSet(tasks') : t.k = k /\ CopiesIn(t, tasks') > CopiesIn(t, tasks)}

\* C21: when the syntax check of the written file fails, nothing is thrown,
\* no write timer and no new write of the assembled text is set up, and the
\* file is overwritten with a script that prints the relativized trace of
\* the failure and exits with status 1; when the check passes, the file
\* stays as it was written.
C21_SyntaxFailureStub ==
    /\ [][last'.op = "syntax_error"
          => /\ ~crashed'
             /\ Started("write") = {} /\ Started("written") = {}
             /\ \E t \in Started("stub") :
                    Printed(t.path) = ReportString(last'.trace[1].label)]_vars
    /\ [][last'.op = "stub" => fs'[ArtifactFile(write_to.path)] = last'.path]_vars
    /\ [][last'.op = "syntax_ok"
          => /\ fs'[ArtifactFile(write_to.path)] = last'.path
             /\ Started("stub") = {}]_vars

(***************************************************************************)
(* C22: one file included from two branches.                               *)
(***************************************************************************)
\* The entries of live nodes m and n, m # n, for one file: a diamond.
Diamonds(ns) ==
    LET Live == {m \in 1..Len(ns) : ns[m].destroyed = 0 /\ ns[m].file_store # <<>>}
        Pairs == {p \in Live \X Live : p[1] # p[2]}
    IN  {d \in UNION {[m : {p[1]}, n : {p[2]},
                       i : 1..Len(ns[p[1]].file_store),
                       j : 1..Len(ns[p[2]].file_store)] : p \in Pairs} :
            OsResolve(ns[d.m].file_store[d.i].path)
                = OsResolve(ns[d.n].file_store[d.j].path)}

\* Node c holds a registration of its own in the pool's entry of its path.
Registered(ns, ws, c) ==
    /\ ns[c].path \in DOMAIN ws
    /\ \E k \in 1..Len(ws[ns[c].path].handlers) :
           /\ ws[ns[c].path].handlers[k].id = ns[c].watcher_id
           /\ ws[ns[c].path].handlers[k].call = [kind |-> "reload", node |-> c]

\* The live nodes other than c that are instances of c's file.
Twins(ns, c) ==
    {d \in 1..Len(ns) : /\ d # c
                        /\ OsResolve(ns[d].path) = OsResolve(ns[c].path)
                        /\ ns[d].destroyed = 0}

\* C22: the entries two live nodes hold for one file name two different
\* instances, each the child of its own parent and, once its existence
\* check has registered it, with a registration of its own in the pool; a
\* step that destroys one instance of a file and not the other leaves the
\* other's registration and its parent's entry as they were.
C22_Diamond ==
    /\ [](\A d \in Diamonds(nodes) :
            LET e == nodes[d.m].file_store[d.i]
                f == nodes[d.n].file_store[d.j]
            IN  /\ e.node # f.node
                /\ nodes[e.node].parent = d.m /\ nodes[f.node].parent = d.n
                /\ \A c \in {e.node, f.node} :
                       (nodes[c].destroyed = 0 /\ nodes[c].watcher_id # Undefined)
                       => Registered(nodes, watchers, c)
                /\ (nodes[e.node].watcher_id # Undefined
                    /\ nodes[f.node].watcher_id # Undefined)
                   => nodes[e.node].watcher_id # nodes[f.node].watcher_id)
    /\ [][\A c \in 1..Len(nodes) : \A d \in Twins(nodes, c) :
            (/\ nodes[c].destroyed = 0
             /\ nodes'[c].destroyed = 1
             /\ nodes'[d].destroyed = 0)
            => /\ Registered(nodes, watchers, d) => Registered(nodes', watchers', d)
               /\ nodes[d].parent # 0
                  => \E i \in 1..Len(nodes'[nodes[d].parent].file_store) :
                         nodes'[nodes[d].parent].file_store[i].node = d]_vars

\* A reconciliation has just destroyed one instance of a file while another
\* instance of it, under another parent, is live and registered.
C22_Witness ==
    /\ last.op = "read"
    /\ ~crashed
    /\ \E c \in 1..Len(last.before) : \E d \in Twins(nodes, c) :
           /\ last.before[c].destroyed = 0
           /\ nodes[c].destroyed = 1
           /\ last.before[c].watcher_id # Undefined
           /\ nodes[d].parent # last.before[c].parent
           /\ Registered(nodes, watchers, d)
           /\ \E x \in Diamonds(last.before) :
                  /\ last.before[x.m].file_store[x.i].node = c
                  /\ last.before[x.n].file_store[x.j].node = d

(***************************************************************************)
(* C23: an unchanged directive that moves to another line.                 *)
(***************************************************************************)
\* The step reconciles node n, which had one pointer to P, from a live
\* parent, and its new scan has one directive for P, on another line.
LineShift(n, P) ==
    /\ Reconciled(n)
    /\ nodes[n].destroyed = 0
    /\ Cardinality(PointersTo(nodes[n], P)) = 1
    /\ Cardinality(EntriesFor(nodes[n], P)) = 1
    /\ LET nested_data == _get_included_files(nodes'[n])
       IN  /\ Cardinality(LinesTo(nested_data, P)) = 1
           /\ nodes[n].nested_pointers[Only(PointersTo(nodes[n], P))].line
                  \notin LinesTo(nested_data, P)

\* The child the entry of n for P names before the step.
ShiftedChild(n, P) == nodes[n].file_store[Only(EntriesFor(nodes[n], P))].node

\* The paths that some pointer of some node names.
PointedPaths(ns) ==
    UNION {{ns[n].nested_pointers[i].path : i \in 1..Len(ns[n].nested_pointers)} :
              n \in 1..Len(ns)}

\* C23 as claimed: the reconciliation destroys the child of the moved
\* directive (it logs DESTROYED and loses its registration) and makes a new
\* instance for it.
C23_LineShiftRebuild ==
    [][\A n \in 1..Len(nodes) : \A P \in PointedPaths(nodes) :
           LineShift(n, P)
           => LET c == ShiftedChild(n, P)
                  e == nodes'[n].file_store[Only(EntriesFor(nodes'[n], P))]
              IN  /\ nodes'[c].destroyed = 1
                  /\ DestroyLogs(last'.trace, c) = 1
                  /\ ~Registered(nodes', watchers', c)
                  /\ e.node # c
                  /\ e.node > Len(nodes)]_vars

\* C23: the reconciliation keeps the child of the moved directive: the
\* child is not destroyed, keeps its registration and stays the instance of
\* the node's entry for the path, with count 1, no instance is made for the
\* path, and the pointer takes the directive's new line.
C23_LineShiftKeeps ==
    [][\A n \in 1..Len(nodes) : \A P \in PointedPaths(nodes) :
           LineShift(n, P)
           => LET c == ShiftedChild(n, P)
                  e == nodes'[n].file_store[Only(EntriesFor(nodes'[n], P))]
                  nested_data == _get_included_files(nodes'[n])
              IN  /\ nodes'[c].destroyed = nodes[c].destroyed
                  /\ DestroyLogs(last'.trace, c) = 0
                  /\ Registered(nodes, watchers, c) => Registered(nodes', watchers', c)
                  /\ e.node = c
                  /\ e.pointers = 1
                  /\ LiveChildren(nodes', n, P) = LiveChildren(nodes, n, P)
                  /\ {nodes'[n].nested_pointers[i].line : i \in PointersTo(nodes'[n], P)}
                         = LinesTo(nested_data, P)]_vars

\* A reconciliation has just moved the only pointer to a path to another
\* line, the child of the path live and registered.
C23_Witness ==
    /\ last.op = "read"
    /\ ~crashed
    /\ last.node \in 1..Len(last.before)
    /\ \E P \in PointedPaths(last.before) :
           LET old == last.before[last.node]
               nested_data == _get_included_files(nodes[last.node])
           IN  /\ old.destroyed = 0
               /\ nodes[last.node].recals = old.recals + 1
               /\ Cardinality(PointersTo(old, P)) = 1
               /\ Cardinality(EntriesFor(old, P)) = 1
               /\ Cardinality(LinesTo(nested_data, P)) = 1
               /\ old.nested_pointers[Only(PointersTo(old, P))].line
                      \notin LinesTo(nested_data, P)
               /\ Registered(nodes, watchers, old.file_store[Only(EntriesFor(old, P))].node)

(***************************************************************************)
(* C24, C25: the two cursors of locate.                                    *)
(*                                                                         *)
(* locate is asked for every line of the text assembled from a tree whose  *)
(* files may hold empty lines, and for the lines just outside the text.    *)
(***************************************************************************)
MenuLocate ==
    (FileR :> {FileRLong,
               Text \o NL \o Inc("b") \o NL \o Text \o NL \o Text \o NL \o Text,
               Text \o NL \o NL \o Inc("b")})
    @@ (FileB :> {Text \o NL \o Text, Text \o NL \o NL \o Text,
                  NL \o Text \o NL})

InitLocate ==
    \E r \in MenuLocate[FileR] : \E b \in MenuLocate[FileB] :
        Constructed(RootPath, (FileR :> r) @@ (FileB :> b), MenuLocate)

\* A call of _relative_file(line, compiled.split('\n')).
Locate ==
    /\ ~crashed
    /\ chunks(nodes, 1).kind = "chunk"
    /\ \E compiled_chunks \in {SplitOn(compiled(nodes), "\n")} :
       \E line \in 0..(Len(compiled_chunks) + 1) :
           last' = [op |-> "locate", node |-> 0, path |-> <<>>, id |-> line,
                    trace |-> <<Event("locate", 0, compiled_chunks,
                                      _relative_file(line, compiled_chunks))>>,
                    before |-> nodes]
    /\ UNCHANGED <<fs, menu, nodes, watchers, pool_id, statistics, open_handles,
                   tasks, now, crashed, edits, fwd, write_to>>

NextLocate == AccessDone \/ ReadDone \/ Locate

SpecLocate == InitLocate /\ [][NextLocate]_vars

\* The distances from line (from 1) of text to the markers of a type in a
\* direction (-1 upwards, 1 downwards), the line itself at distance 0.
MarkerDistances(text, line, type, direction) ==
    {d \in 0..Len(text) :
        /\ line + direction * d \in 1..Len(text)
        /\ MarkerFields(text[line + direction * d], text) # <<>>
        /\ MarkerFields(text[line + direction * d], text)[1] = type}

\* The least of them, -1 if there is none.
Nearest(text, line, type, direction) ==
    LET S == MarkerDistances(text, line, type, direction)
    IN  IF S = {} THEN 0 - 1 ELSE CHOOSE d \in S : \A e \in S : d <= e

\* The match the marker at distance d gives.
MatchAt(text, line, type, direction, d) ==
    LET fields == MarkerFields(text[line + direction * d], text)
    IN  [found |-> TRUE, path |-> fields[3], total_lines |-> fields[4],
         relative_line |-> IF type = "START" THEN d ELSE fields[4] - d - 1]

C25_LocateFindsBoundary ==
    (last.op = "locate" /\ last.id \in 1..Len(last.trace[1].what)) =>
        LET text == last.trace[1].what
        IN  (\/ Nearest(text, last.id, "START", 0 - 1) >= 0
             \/ Nearest(text, last.id, "END", 1) >= 0)
            => last.trace[1].label.found

(***************************************************************************)
(* C26, C27: directives behind comment openers.                            *)
(***************************************************************************)
\* Lines with a directive behind a comment opener, a closer, or another
\* directive.
CommentLines ==
    {<<"//", " ">> \o Inc("a"),
     <<"//", " ">> \o Inc("a") \o <<" ">> \o Inc("b"),
     Text \o <<" ">> \o Inc("a"),
     <<"/*", " ">> \o Inc("a") \o <<" ", "*/", " ">> \o Inc("b"),
     <<"/*", " ">> \o Inc("a") \o <<" ">> \o Inc("b"),
     <<"*/", " ", "/*", " ">> \o Inc("a")}

MenuComments ==
    (FileR :> {Text \o NL \o l : l \in CommentLines}
              \cup {<<"/*">> \o NL \o Inc("a") \o NL \o <<"*/">>})
    @@ (FileA :> {Text}) @@ (FileB :> {Text})

InitComments ==
    \E r \in MenuComments[FileR] :
        Constructed(RootPath, (FileR :> r) @@ (FileA :> Text) @@ (FileB :> Text),
                    MenuComments)

SpecComments == InitComments /\ [][Next]_vars

\* The call sites of a content: the places of the directive keyword.
CallSites(content) == {i \in 1..Len(content) : content[i] = "include("}

\* The text of the call site's line that comes before the call.
LinePrefix(content, i) ==
    LET breaks == {j \in 1..(i - 1) : content[j] = "\n"}
        from == IF breaks = {} THEN 1
                ELSE 1 + CHOOSE j \in breaks : \A k \in breaks : k <= j
    IN  SubSeq(content, from, i - 1)

\* The path the call at site i of node self names.
SitePath(self, i) ==
    absolute_file_path(_parse_file_path(SubSeq(self.content, i + 1, Len(self.content))),
                       self.directory_path)

\* A line-comment opener comes before the call on its line.
LineCommented(content, i) ==
    \E k \in 1..Len(LinePrefix(content, i)) : LinePrefix(content, i)[k] \in LineOpenerTokens

\* A block-comment opener comes before the call on its line with no closer
\* between the opener and the call.
BlockCommented(content, i) ==
    LET prefix == LinePrefix(content, i)
    IN  \E k \in 1..Len(prefix) :
            /\ prefix[k] = "/*"
            /\ \A j \in (k + 1)..Len(prefix) : prefix[j] # "*/"

\* Node n holds no pointer to P and no child for it.
Inert(self, P) == PointersTo(self, P) = {} /\ EntriesFor(self, P) = {}

\* C26: after a reconciliation, a path all of whose call sites have a
\* line-comment opener earlier on their line has no pointer and no child,
\* and the path of a call site with no comment opener before it on its
\* line has a pointer.
C26_LineComment ==
    [][\A n \in 1..Len(nodes) :
           Reconciled(n) =>
               LET self == nodes'[n]
                   sites == CallSites(self.content)
               IN  \A i \in sites :
                       /\ (\A j \in sites : SitePath(self, j) = SitePath(self, i)
                                            => LineCommented(self.content, j))
                          => Inert(self, SitePath(self, i))
                       /\ (/\ ~LineCommented(self.content, i)
                           /\ ~BlockCommented(self.content, i))
                          => PointersTo(self, SitePath(self, i)) # {}]_vars

\* C27: after a reconciliation, a path all of whose call sites are without
\* a line-comment opener before them has no pointer and no child exactly
\* when each of the sites has a block-comment opener before it on its line
\* with no closer between the opener and the call.
C27_BlockComment ==
    [][\A n \in 1..Len(nodes) :
           Reconciled(n) =>
               LET self == nodes'[n]
                   sites == CallSites(self.content)
               IN  \A i \in sites :
                       LET same == {j \in sites : SitePath(self, j) = SitePath(self, i)}
                       IN  (\A j \in same : ~LineCommented(self.content, j))
                           => (Inert(self, SitePath(self, i))
                               <=> \A j \in same : BlockCommented(self.content, j))]_vars

(***************************************************************************)
(* C28: the line of a pointer.                                             *)
(***************************************************************************)
\* Contents with accepted and rejected occurrences of the keyword before a
\* directive: on earlier lines, on its own line, commented, without a
\* closing parenthesis, and one right after the other.
MenuLines ==
    (FileR :> {Inc("a") \o NL \o Inc("b") \o NL \o Inc("a"),
               <<"//", " ">> \o Inc("a") \o NL \o NL \o Inc("b"),
               Text \o <<" ">> \o Inc("a") \o <<" ">> \o Inc("b") \o NL
                   \o <<"/*", " ">> \o Inc("a") \o NL \o Inc("b"),
               <<"x", " ", "include(">> \o NL \o NL \o Inc("a"),
               <<"x", " ", "include(", "include(">> \o NL \o Inc("b") \o NL \o Inc("a")})
    @@ (FileA :> {Text}) @@ (FileB :> {Text, NL \o Text})

InitLines ==
    \E r \in MenuLines[FileR] :
        Constructed(RootPath, (FileR :> r) @@ (FileA :> Text) @@ (FileB :> Text),
                    MenuLines)

SpecLines == InitLines /\ [][Next]_vars

\* The text from site i to the next occurrence of the keyword.
SiteChunk(content, i) ==
    LET later == {j \in CallSites(content) : j > i}
        to == IF later = {} THEN Len(content)
              ELSE (CHOOSE j \in later : \A k \in later : j <= k) - 1
    IN  SubSeq(content, i + 1, to)

\* 1 + the number of newlines of the content before site i.
SiteLine(content, i) == 1 + NewlineCount(SubSeq(content, 1, i - 1))

\* C28: after a reconciliation, every pointer of the node stands at the
\* line of a call site of its path, that line being 1 + the number of
\* newlines before the site in the node's content; and a call site with a
\* closing parenthesis before the next keyword, text before it since the
\* last keyword and no comment opener before it on its line has a pointer
\* at its line.
C28_PointerLine ==
    [][\A n \in 1..Len(nodes) :
           Reconciled(n) =>
               LET self == nodes'[n]
                   sites == CallSites(self.content)
               IN  /\ \A k \in 1..Len(self.nested_pointers) :
                          \E i \in sites :
                              /\ SitePath(self, i) = self.nested_pointers[k].path
                              /\ SiteLine(self.content, i) = self.nested_pointers[k].line
                   /\ \A i \in sites :
                          (/\ ~LineCommented(self.content, i)
                           /\ ~BlockCommented(self.content, i)
                           /\ self.content[i - 1] # "include("
                           /\ FirstIndex(SiteChunk(self.content, i), ")") > 0)
                          => \E k \in 1..Len(self.nested_pointers) :
                                 self.nested_pointers[k].line = SiteLine(self.content, i)]_vars

\* A reconciliation has just given a directive on the fourth line of the
\* stored content its pointer, two occurrences of the keyword that hold no
\* call before it.
C28_Witness ==
    /\ last.op = "read"
    /\ ~crashed
    /\ last.node = 1
    /\ \E i \in CallSites(nodes[1].content) :
           /\ SiteLine(nodes[1].content, i) = 4
           /\ Cardinality({j \in CallSites(nodes[1].content) : j < i}) >= 2
           /\ \E k \in 1..Len(nodes[1].nested_pointers) :
                  /\ nodes[1].nested_pointers[k].line = 4
                  /\ nodes[1].nested_pointers[k].path = SitePath(nodes[1], i)

(***************************************************************************)
(* C29: the pointer list after a reconciliation.                           *)
(***************************************************************************)
\* The (line, path) pairs of a pointer list, and of a scan.
PointerPairs(pointers) == {<<pointers[k].line, pointers[k].path>> : k \in 1..Len(pointers)}

ScanPairs(nested_data) ==
    {<<l, nested_data.files[l].path>> : l \in DOMAIN nested_data.files}

\* C29: after a reconciliation of a node its pointers are in strictly
\* ascending order of their lines (so no two share a line), their (line,
\* path) pairs are those of the new scan, and a previous pointer is still
\* in the list, as it was, iff the new scan has its path at its line.
C29_PointerList ==
    [][\A n \in 1..Len(nodes) :
           Reconciled(n) =>
               LET old == nodes[n].nested_pointers
                   new == nodes'[n].nested_pointers
                   nested_data == _get_included_files(nodes'[n])
               IN  /\ \A k \in 1..(Len(new) - 1) : new[k].line < new[k + 1].line
                   /\ PointerPairs(new) = ScanPairs(nested_data)
                   /\ \A k \in 1..Len(old) :
                          (old[k] \in Range(new)) <=> ~Stale(old[k], nested_data)]_vars

\* A reconciliation has just kept a pointer and added one on an earlier
\* line.
C29_Witness ==
    /\ last.op = "read"
    /\ ~crashed
    /\ last.node \in 1..Len(last.before)
    /\ nodes[last.node].recals = last.before[last.node].recals + 1
    /\ LET old == last.before[last.node].nested_pointers
           new == nodes[last.node].nested_pointers
       IN  \E k \in 1..Len(old) : \E j \in 1..Len(new) :
               /\ old[k] \in Range(new)
               /\ <<new[j].line, new[j].path>> \notin PointerPairs(old)
               /\ new[j].line < old[k].line

(***************************************************************************)
(* C30: a node destroyed while its existence check is pending.             *)
(*                                                                         *)
(* r includes a; one write makes a include b and another, within the       *)
(* settle delay of the first, drops a from r, so that the reloads of a and *)
(* of r are on their way together.                                         *)
(***************************************************************************)
MenuPending == (FileR :> {Text}) @@ (FileA :> {Inc("b")}) @@ (FileB :> {Text})

InitPending ==
    Constructed(RootPath,
                (FileR :> Inc("a")) @@ (FileA :> Text) @@ (FileB :> Text),
                MenuPending)

SpecPending == InitPending /\ [][NextScenario]_vars

\* Node n and the nodes below it.
RECURSIVE Subtree(_, _)
Subtree(ns, n) ==
    {n} \cup UNION {Subtree(ns, m) : m \in {c \in 1..Len(ns) : ns[c].parent = n}}

\* The nodes that hold a registration in the pool.
RegisteredNodes(ws) ==
    UNION {{ws[p].handlers[k].call.node : k \in 1..Len(ws[p].handlers)} : p \in DOMAIN ws}

\* C30: once a node is destroyed and the callbacks that were pending have
\* run, every node of its subtree is destroyed and the pool holds no
\* registration of the node or of a node below it.
C30_DestroyedUnregistered ==
    \A n \in 1..Len(nodes) :
        (nodes[n].destroyed >= 1
         /\ ~\E t \in BagToSet(tasks) : t.k \in {"access", "read"})
        => \A m \in Subtree(nodes, n) :
               /\ nodes[m].destroyed >= 1
               /\ m \notin RegisteredNodes(watchers)


(***************************************************************************)
(* C31: what a node serves after a read that failed.                       *)
(*                                                                         *)
(* The error branch of _reload_content replaces the content and returns    *)
(* before _recalibrate: the pointers and the file store are as the last    *)
(* successful read left them.                                              *)
(***************************************************************************)
\* Node n's latest read failed: its content is the placeholder.
Placeholder(n) ==
    nodes[n].content = InvalidContent(nodes[n].file_name, nodes[n].path)

\* The elements of a chunk's content that are nested chunks.
NestedChunks(chunk) ==
    {i \in 1..Len(chunk.content) : chunk.content[i].kind = "chunk"}

\* The pointers of node n whose line is no line of n's content.
PointersOutside(n) ==
    {i \in 1..Len(nodes[n].nested_pointers) :
        nodes[n].nested_pointers[i].line
            \notin 1..Len(SplitOn(nodes[n].content, "\n"))}

\* C31: while a node's content is the placeholder of a failed read, its
\* chunks() holds the placeholder text and no nested child chunk, and every
\* pointer of its pointer list refers to a line of its current content.
C31_PlaceholderOnly ==
    \A n \in 1..Len(nodes) :
        Placeholder(n) =>
          /\ chunks(nodes, n).kind = "chunk"
          /\ chunks(nodes, n).content[1] = TextLine(Front(nodes[n].content))
          /\ NestedChunks(chunks(nodes, n)) = {}
          /\ PointersOutside(n) = {}

(***************************************************************************)
(* C32: the counts of the child map.                                       *)
(*                                                                         *)
(* The scan keys files by line position and paths by path: of two calls on *)
(* one line the later one takes the line's entry of files, and both paths  *)
(* are in paths.                                                           *)
(***************************************************************************)
\* The entries of node n's child map whose count is not the number of n's
\* pointers to the entry's path.
Miscounted(n) ==
    {i \in 1..Len(nodes[n].file_store) :
        nodes[n].file_store[i].pointers
            # Cardinality(PointersTo(nodes[n], nodes[n].file_store[i].path))}

\* The entries of node n's child map with a count below 1.
Uncounted(n) ==
    {i \in 1..Len(nodes[n].file_store) : nodes[n].file_store[i].pointers < 1}

\* C32: once a node has completed a reconciliation, every path of its child
\* map has a count that equals the number of the node's pointers to that
\* path and is at least 1, also when one line holds two or more calls.
C32_CountsMatchPointers ==
    \A n \in 1..Len(nodes) :
        nodes[n].recals >= 1 => Miscounted(n) = {} /\ Uncounted(n) = {}

(***************************************************************************)
(* C33: the indentation of a pointer.                                      *)
(*                                                                         *)
(* The root includes a, on a line of its own or behind spaces; an edit may *)
(* change only the text before the directive on its line.                  *)
(***************************************************************************)
MenuIndent ==
    (FileR :> {Inc("a"),
               Indented(<<"  ">>, "a"),
               Inc("a") \o NL \o Indented(<<" ">>, "b")})
    @@ (FileA :> {Text, Indented(<<" ">>, "b")})
    @@ (FileB :> {Text})

InitIndent ==
    \E r \in {Inc("a"), Indented(<<"  ">>, "a")} :
        Constructed(RootPath, (FileR :> r) @@ (FileA :> Text) @@ (FileB :> Text),
                    MenuIndent)

SpecIndent == InitIndent /\ [][Next]_vars

\* The pointers of self whose indentation is not the one the scan
\* nested_data records for the pointer's line.
Misindented(self, nested_data) ==
    {k \in 1..Len(self.nested_pointers) :
        LET pointer == self.nested_pointers[k]
        IN  ~(/\ pointer.line \in DOMAIN nested_data.files
              /\ pointer.spacing = nested_data.files[pointer.line].spacing)}

\* The nodes ns with every pointer of node n given the indentation the scan
\* of n's content records for its line.
ScanSpaced(ns, n) ==
    LET nested_data == _get_included_files(ns[n])
        Respaced(pointer) ==
            IF pointer.line \in DOMAIN nested_data.files
            THEN [pointer EXCEPT !.spacing = nested_data.files[pointer.line].spacing]
            ELSE pointer
    IN  [ns EXCEPT ![n].nested_pointers =
            [k \in 1..Len(@) |-> Respaced(@[k])]]

\* The pointers of the node self that the nodes before held at the same
\* line for the same path.
Survivors(self, before) ==
    {k \in 1..Len(self.nested_pointers) :
        \E j \in 1..Len(before.nested_pointers) :
            /\ before.nested_pointers[j].line = self.nested_pointers[k].line
            /\ before.nested_pointers[j].path = self.nested_pointers[k].path}

\* C33: after every reconciliation of a node, each of its pointers, those
\* that survived from the previous scan included, has the indentation the
\* latest scan recorded for its line; so the assembled text applies the
\* latest scan's indentation to the included subtree.
C33_IndentationFollowsScan ==
    [][\A n \in 1..Len(nodes) :
         Reconciled(n) =>
           /\ Misindented(nodes'[n], _get_included_files(nodes'[n])) = {}
           /\ compiled(nodes') = compiled(ScanSpaced(nodes', n))]_vars

(***************************************************************************)
(* C34: a node after its destruction.                                      *)
(*                                                                         *)
(* destroy cancels nothing and leaves no mark on the node: the callback of *)
(* a read or of an existence check that was started before the destruction *)
(* runs as for a live node.                                                *)
(***************************************************************************)
\* The registrations the pool ws holds for node n.
RegistrationsOf(ws, n) ==
    UNION {{<<p, ws[p].handlers[k].id>> :
               k \in {j \in 1..Len(ws[p].handlers) : ws[p].handlers[j].call.node = n}} :
           p \in DOMAIN ws}

\* The nodes constructed by node n.
ChildrenOf(ns, n) == {c \in 1..Len(ns) : ns[c].parent = n}

\* The step has node n emit no lifecycle event, construct no child, take no
\* registration in the pool and call no recalibrate handler.
Quiet(n) ==
    /\ nodes'[n].inits = nodes[n].inits
    /\ nodes'[n].changes = nodes[n].changes
    /\ ChildrenOf(nodes', n) = ChildrenOf(nodes, n)
    /\ RegistrationsOf(watchers', n) \subseteq RegistrationsOf(watchers, n)
    /\ nodes'[n].recals = nodes[n].recals

\* C34: once a node has emitted DESTROYED it emits no INITIALIZED and no
\* DETECTED_CHANGES, constructs no child, takes no registration in the pool
\* and never notifies the recalibration sink, also when a read started
\* before the destruction completes after it.
C34_DestroyedIsQuiet ==
    [][\A n \in 1..Len(nodes) : nodes[n].destroyed >= 1 => Quiet(n)]_vars

(***************************************************************************)
(* C35: the timer of a forwarded event.                                    *)
(*                                                                         *)
(* The callback handed to setTimeout looks the path's entry up when it     *)
(* runs, a call delay after the check that scheduled it.                   *)
(***************************************************************************)
\* The handlers registered for path in the pool ws.
RegisteredFor(ws, path) == IF path \in DOMAIN ws THEN ws[path].handlers ELSE <<>>

\* The handlers a trace records as called, in order.
Called(trace) ==
    LET IsCall(e) == e.ev = "call"
        calls == SelectSeq(trace, IsCall)
    IN  [i \in 1..Len(calls) |-> [kind |-> calls[i].what, node |-> calls[i].node]]

\* C35: when the timer of a forwarded event fires it calls exactly the
\* handlers registered for the path at that moment, in order, and throws
\* nothing; if the path's last registration was removed after the check
\* passed, it calls no handler and throws nothing.
C35_TimerCallsRegistered ==
    [][last'.op = "timer" =>
         /\ ~crashed'
         /\ Called(last'.trace)
              = [i \in 1..Len(RegisteredFor(watchers, last'.path)) |->
                    RegisteredFor(watchers, last'.path)[i].call]]_vars

(***************************************************************************)
(* C36: what the tree holds when the recalibration sink is called.         *)
(*                                                                         *)
(* A node calls its recalibrate handler at the end of each of its          *)
(* reconciliations; the children it has just constructed have their reads  *)
(* still on the way.                                                       *)
(***************************************************************************)
\* The nodes of the tree below node n, n included, by the file stores.
RECURSIVE TreeNodes(_, _)
TreeNodes(ns, n) ==
    {n} \cup UNION {TreeNodes(ns, ns[n].file_store[i].node) :
                       i \in 1..Len(ns[n].file_store)}

\* The nodes of the tree that have completed no read yet.
Unloaded(ns) == {m \in TreeNodes(ns, 1) : ns[m].content = <<>>}

\* How many times the getter chunks expands a node at and below node n:
\* once for n and once more for every pointer on the way down.
RECURSIVE Expansions(_, _)
RECURSIVE ExpansionsFrom(_, _, _)
Expansions(ns, n) == 1 + ExpansionsFrom(ns, n, 1)

ExpansionsFrom(ns, n, k) ==
    IF k > Len(ns[n].nested_pointers) THEN 0
    ELSE Expansions(ns, ns[n].file_store[StoreIndex(ns[n].file_store,
                                             ns[n].nested_pointers[k].path)].node)
         + ExpansionsFrom(ns, n, k + 1)

\* The number of END markers among the lines.
Ends(lines) ==
    Cardinality({i \in 1..Len(lines) :
                   MarkerFields(lines[i], lines) # <<>>
                   /\ MarkerFields(lines[i], lines)[1] = "END"})

\* C36: whenever the recalibration sink is called, every node of the tree
\* has completed a read, and the text assembled at that moment holds a
\* START_FILE and END_FILE pair for the root and for every active pointer.
C36_SinkSeesLoadedTree ==
    [][Sinks(last'.trace) # {} =>
         /\ Unloaded(nodes') = {}
         /\ \E lines \in {SplitOn(compiled(nodes'), "\n")} :
                /\ Starts(lines) = Expansions(nodes', 1)
                /\ Ends(lines) = Expansions(nodes', 1)]_vars

(***************************************************************************)
(* C37: the compiled file catches up with the tree.                        *)
(*                                                                         *)
(* The root has no directive or includes a; write_to is called at any      *)
(* time, before or after the root's first reconciliation.  The clock runs  *)
(* on for as long as a timer is outstanding, so that every timer comes     *)
(* due.  The event loop runs every callback that is ready, and time        *)
(* passes: the program's steps are taken under weak fairness.              *)
(***************************************************************************)
MenuOutput ==
    (FileR :> {Inc("a") \o NL \o Text}) @@ (FileA :> {Text \o NL \o Text})
    @@ (ArtifactFile(WriteTo(EmptyWorld, <<".", "">>).write_to.path) :> {})

InitOutput ==
    \E r \in {Text, Inc("a")} :
        Constructed(RootPath, (FileR :> r) @@ (FileA :> Text), MenuOutput)

\* compiler.write_to({ path: './' }) by the caller, once.
CallWriteTo ==
    /\ ~crashed
    /\ write_to.path = <<>>
    /\ \E w0 \in {World} : \E w \in {WriteTo(w0, <<".", "">>)} :
           Commit(w, "write_to", 0, w.write_to.path, 0)
    /\ UNCHANGED <<fs, menu, now, edits>>

\* The clock moves on once every ready callback has run, up to MaxTime and
\* beyond it while a timer is still to come due.
Advance ==
    /\ ~crashed
    /\ \/ now < MaxTime
       \/ \E t \in BagToSet(tasks) : t.k \in {"timer", "write"} /\ t.due > now
    /\ ~\E t \in BagToSet(tasks) : Runnable(t)
    /\ now' = now + TickStep
    /\ last' = [op |-> "tick", node |-> 0, path |-> <<>>, id |-> 0, trace |-> <<>>,
                before |-> nodes]
    /\ UNCHANGED <<fs, menu, nodes, watchers, pool_id, statistics, open_handles,
                   tasks, crashed, edits, fwd, write_to>>

\* The steps of the program: callbacks of the event loop and the clock.
ProgramStep ==
    \/ AccessDone \/ ReadDone \/ TimerFire \/ WriteTimerFire \/ Advance
    \/ WriteFileDone \/ SyntaxPassed \/ SyntaxFailed \/ StubWritten

NextOutput == ProgramStep \/ Edit \/ CallWriteTo

SpecOutput == InitOutput /\ [][NextOutput]_vars /\ WF_vars(ProgramStep)

\* write_to has been called.
Configured == write_to.path # <<>>

\* Nothing that changes the tree is on its way.
TreeIdle ==
    ~crashed /\ ~\E t \in BagToSet(tasks) : t.k \in {"access", "read", "timer"}

\* The scripts a failed syntax check of the written content leaves.
StubsFor(content) ==
    {TraceCode(EscapeBackslashes(ReportString(
         _relativize_error(SyntaxErrorOutput(write_to.path, content, k), content,
                           ArtifactName, nodes)))) :
       k \in {j \in 1..MaxLineNumber : j <= Len(SplitOn(content, "\n"))}}

\* The compiled file holds the text assembled from the tree as it is, or
\* the script a failed syntax check of that text leaves.
OutputCurrent ==
    /\ Configured
    /\ ArtifactFile(write_to.path) \in DOMAIN fs
    /\ \E content \in {RelativeLoggerCode \o compiled(nodes)} :
          \/ fs[ArtifactFile(write_to.path)] = content
          \/ fs[ArtifactFile(write_to.path)] \in StubsFor(content)

\* C37: once write_to has been called and the tree has stopped changing,
\* the compiled file comes to hold the text assembled from the tree, or the
\* syntax-failure script for it, and keeps it: for a root with or without
\* directives, and for write_to called before or after the root's first
\* reconciliation.
C37_OutputCatchesUp == <>[](Configured /\ TreeIdle) => <>[]OutputCurrent
====
